---------------------------- MODULE Spec2Model ----------------------------
(***************************************************************************)
(* SS-TWR ranging sketches and the tag discovery sketch for the Makerfabs   *)
(* DW3000 modules.                                                         *)
(*                                                                         *)
(* One behaviour of the model is a run of ONE sketch on one device (the    *)
(* variable sketch names it), together with the DW3000 radio it drives,    *)
(* the serial console and the frames that arrive over the air.  A fleet of *)
(* anchors answering one poll is modelled separately (the fl_ variables).  *)
(*                                                                         *)
(* Numbers wider than 31 bits (40-bit device timestamps, uint64_t and      *)
(* uint32_t values) are little-endian sequences of bytes, so that every    *)
(* wrap, shift and cast of the C code is computed bytewise.                *)
(***************************************************************************)
EXTENDS Integers, Sequences, FiniteSets, TLC

(***************************************************************************)
(* Bounds of the model (the environment), not of the program.              *)
(***************************************************************************)
MaxFrames == 2
MaxIdFrames == 1
MaxConsole == 2
MaxResets == 1
MaxPolls == 2

(***************************************************************************)
(* Program constants.                                                      *)
(***************************************************************************)
TX_ANT_DLY == 16385
ALL_MSG_COMMON_LEN == 10
ALL_MSG_SN_IDX == 2
RESP_MSG_POLL_RX_TS_IDX == 10
RESP_MSG_RESP_TX_TS_IDX == 14
RESP_MSG_TS_LEN == 4
BASE_REPLY_DLY_US == 600
SLOT_DELAY_US == 2000
ID_MIN == 1
ID_MAX == 20
EEPROM_ADDR_ID == 0
DEFAULT_ANCHOR_ID == 255

rx_poll_msg == <<65, 136, 0, 202, 222, 87, 65, 86, 69, 224, 0, 0>>
tx_resp_msg_init == <<65, 136, 0, 202, 222, 86, 69, 87, 65, 225, 0, 0, 0, 0, 0, 0, 0, 0, 0, 0>>

(***************************************************************************)
(* Bytes and little-endian numbers.                                        *)
(***************************************************************************)
Byte == 0..255

\* Tup(f): f as an explicit tuple (evaluated once)
Tup(f) == f \o <<>>

Zeros(n) == Tup([i \in 1..n |-> 0])

\* the C expression buf[k]
At(buf, k) == buf[k + 1]

\* a with a[k] = v
SetAt(buf, k, v) == Tup([buf EXCEPT ![k + 1] = v])

\* a + b modulo 2^(8*Len(a)); b is padded with zero bytes (the operands are drawn
\* from one-element sets, which TLC evaluates once)
AddLE(x, y) ==
  CHOOSE sum \in
    {LET n == Len(a)
         bb(i) == IF i <= Len(b) THEN b[i] ELSE 0
         c[i \in 0..n] == IF i = 0 THEN 0 ELSE (a[i] + bb(i) + c[i - 1]) \div 256
     IN Tup([i \in 1..n |-> (a[i] + bb(i) + c[i - 1]) % 256]) : a \in {x}, b \in {y}} : TRUE

\* a - b modulo 2^(8*Len(a)), both of the same length
SubLE(x, y) ==
  CHOOSE diff \in
    {LET n == Len(a)
         br[i \in 0..n] == IF i = 0 THEN 0 ELSE IF a[i] - b[i] - br[i - 1] < 0 THEN 1 ELSE 0
     IN Tup([i \in 1..n |-> (a[i] - b[i] - br[i - 1]) % 256]) : a \in {x}, b \in {y}} : TRUE

\* x >> 8 of an n-byte number, as an n-byte number
Shr8(x) == CHOOSE r \in {Tup([i \in 1..Len(a) |-> IF i < Len(a) THEN a[i + 1] ELSE 0]) : a \in {x}} : TRUE

\* x << 8 of an n-byte number, as an n-byte number
Shl8(x) == CHOOSE r \in {Tup([i \in 1..Len(a) |-> IF i = 1 THEN 0 ELSE a[i - 1]]) : a \in {x}} : TRUE

\* the cast (uint32_t)x, and the widening (uint64_t)x
Low(x, n) == CHOOSE r \in {Tup([i \in 1..n |-> IF i <= Len(a) THEN a[i] ELSE 0]) : a \in {x}} : TRUE

\* x & 0xFFFFFFFE on a uint32_t
ClearBit0(x) == CHOOSE r \in {Tup([a EXCEPT ![1] = a[1] - (a[1] % 2)]) : a \in {x}} : TRUE

\* a small natural number as an n-byte number
NatLE(x, n) ==
  CHOOSE r \in {LET d[i \in 0..n] == IF i = 0 THEN v ELSE d[i - 1] \div 256
                IN Tup([i \in 1..n |-> d[i - 1] % 256]) : v \in {x}} : TRUE

\* a < b for numbers of the same length
LessLE(a, b) ==
  \E i \in 1..Len(a) : a[i] < b[i] /\ \A j \in (i + 1)..Len(a) : a[j] = b[j]

\* (mutant: every header passes)
MemEqAny(a, b, n) == TRUE

\* memcmp(a, b, n) == 0
MemEq(a, b, n) == \A i \in 1..n : a[i] = b[i]

\* bitwise exclusive or of two natural numbers
RECURSIVE Xor(_, _)
Xor(x, y) ==
  CHOOSE r \in {IF a = 0 THEN b
                ELSE IF b = 0 THEN a
                ELSE ((a + b) % 2) + 2 * Xor(a \div 2, b \div 2) : a \in {x}, b \in {y}} : TRUE

\* the frame check sequence of IEEE 802.15.4, which the DW3000 appends to every frame
\* it sends and checks on every frame it receives (RXFCG): the 16-bit ITU-T CRC
\* x^16 + x^12 + x^5 + 1, bits taken least significant first, starting from 0
CrcShift(x) == CHOOSE r \in {IF c % 2 = 1 THEN Xor(c \div 2, 33800) ELSE c \div 2 : c \in {x}} : TRUE

\* one byte through the CRC register
CrcByte(c, b) ==
  CrcShift(CrcShift(CrcShift(CrcShift(CrcShift(CrcShift(CrcShift(CrcShift(Xor(c, b)))))))))

\* (the register and the rest of the data are drawn from one-element sets, which
\* TLC evaluates once)
RECURSIVE Crc16(_, _)
Crc16(c, data) ==
  IF data # <<>>
  THEN CHOOSE r \in {Crc16(c1, rest) : c1 \in {CrcByte(c, Head(data))}, rest \in {Tail(data)}} : TRUE
  ELSE c

\* the frame on air for a payload: the payload and its two FCS bytes
Fcs(payload) ==
  CHOOSE f \in {Tup(p \o <<c % 256, c \div 256>>) : p \in {payload}, c \in {Crc16(0, payload)}} : TRUE

\* dwt_writetxfctrl(len, 0, 1) and dwt_starttx: of the len bytes of the TX buffer the
\* last two are replaced by the FCS
OnAir(buf) == IF Len(buf) < 2 THEN buf ELSE Fcs(SubSeq(buf, 1, Len(buf) - 2))

\* (mutant: the two FCS bytes of the frame are not copied)
ReadRxDataNoFcs(buf, frame, len) ==
  Tup([i \in 1..Len(buf) |-> IF i <= len - 2 THEN frame[i] ELSE buf[i]])

\* dwt_readrxdata(buffer, len, 0): the first len bytes of the frame overwrite the
\* buffer, the rest of the buffer keeps what earlier frames left there
ReadRxData(buf, frame, len) == Tup([i \in 1..Len(buf) |-> IF i <= len THEN frame[i] ELSE buf[i]])


(***************************************************************************)
(* Arduino String, as a sequence of characters.                            *)
(***************************************************************************)
Digits == <<"0", "1", "2", "3", "4", "5", "6", "7", "8", "9">>

IsDigit(c) == \E d \in 1..10 : Digits[d] = c

DigitVal(c) == (CHOOSE d \in 1..10 : Digits[d] = c) - 1

IsSpace(c) == c \in {" ", "CR", "TAB"}

\* String::trim()
Trim(s) ==
  CHOOSE r \in UNION {{IF keep = {} THEN <<>>
                        ELSE SubSeq(t, CHOOSE i \in keep : \A j \in keep : i <= j,
                                       CHOOSE i \in keep : \A j \in keep : j <= i)
                        : keep \in {{i \in 1..Len(t) : ~IsSpace(t[i])}}} : t \in {s}} : TRUE

\* String::startsWith(p)
StartsWith(s, p) ==
  CHOOSE r \in {Len(t) >= Len(q) /\ SubSeq(t, 1, Len(q)) = q : t \in {s}, q \in {p}} : TRUE

\* String::indexOf(c): the C index of the first c, -1 when there is none
IndexOf(s, c) ==
  CHOOSE r \in UNION {{IF at = {} THEN -1 ELSE (CHOOSE i \in at : \A j \in at : i <= j) - 1
                        : at \in {{i \in 1..Len(t) : t[i] = c}}} : t \in {s}} : TRUE

\* String::substring(from)
Substring(s, from) ==
  CHOOSE r \in {IF f >= Len(t) THEN <<>> ELSE SubSeq(t, f + 1, Len(t)) : t \in {s}, f \in {from}} : TRUE

\* String::toInt(), that is atol(): leading white space, an optional sign, then the
\* digits up to the first character that is none; 0 when there is no digit.
\* (The lines of ConsoleLines hold at most four digits: long never overflows.)
\* (every value is bound through a one-element set, so that TLC evaluates it once)
RECURSIVE AtolDigits(_, _, _)
AtolDigits(s, i, acc) ==
  IF i > Len(s) \/ ~IsDigit(s[i]) THEN acc
  ELSE CHOOSE r \in {AtolDigits(s1, i1, a1) :
                       s1 \in {s}, i1 \in {i + 1}, a1 \in {acc * 10 + DigitVal(s[i])}} : TRUE

ToInt(s) ==
  CHOOSE r \in UNION {UNION {UNION {{IF signed /\ t[st] = "-" THEN 0 - mag ELSE mag
      : mag \in {AtolDigits(t, IF signed THEN st + 1 ELSE st, 0)}}
      : signed \in {st <= Len(t) /\ t[st] \in {"-", "+"}}}
      : st \in {IF \A i \in 1..Len(t) : IsSpace(t[i]) THEN Len(t) + 1
                ELSE CHOOSE i \in 1..Len(t) : ~IsSpace(t[i]) /\ \A j \in 1..(i - 1) : IsSpace(t[j])}}
      : t \in {s}} : TRUE

\* the decimal text of n, -999 <= n <= 999 (what the user types)
DecStr(n) ==
  LET m == IF n < 0 THEN 0 - n ELSE n
      ds == IF m >= 100 THEN <<Digits[(m \div 100) + 1], Digits[((m \div 10) % 10) + 1], Digits[(m % 10) + 1]>>
            ELSE IF m >= 10 THEN <<Digits[(m \div 10) + 1], Digits[(m % 10) + 1]>>
            ELSE <<Digits[m + 1]>>
  IN IF n < 0 THEN <<"-">> \o ds ELSE ds

SETID == <<"S", "E", "T", "I", "D">>

\* the numbers typed after SETID: both ends of [ID_MIN, ID_MAX], their neighbours, a
\* negative number and numbers that (uint8_t) would bring into the range
SetidValues == {-1, 0, 1, 2, 20, 21, 256, 276}

\* the console lines the user may type (without the '\n' that ends them)
ConsoleLines ==
  {SETID \o <<" ">> \o DecStr(n) : n \in SetidValues}
  \cup {SETID,
        SETID \o <<" ", "x">>,
        SETID \o <<" ", "7", "x">>,
        SETID \o <<" ", " ", "1", "2", "CR">>,
        SETID \o <<"X", " ", "9">>,
        <<"H", "E", "L", "P", " ", "3">>}

(***************************************************************************)
(* The state.                                                              *)
(***************************************************************************)
VARIABLES
  sketch,        \* the sketch the device runs
  pc,            \* where its control loop stands
  eeprom,        \* EEPROM byte EEPROM_ADDR_ID (survives restarts)
  anchor_id,     \* static uint8_t anchor_id
  frame_seq_nb,  \* static uint8_t frame_seq_nb
  rx_buffer,     \* static uint8_t rx_buffer[]
  tx_resp_msg,   \* static uint8_t tx_resp_msg[]
  status_reg,    \* static uint32_t status_reg, the flags last read
  poll_rx_ts,    \* static uint64_t poll_rx_ts
  resp_tx_ts,    \* static uint64_t resp_tx_ts
  total_uus,     \* the slot delay last computed (0: none yet)
  serial_rx,     \* console lines typed and not yet read
  out,           \* the lines the last step printed
  SYS_STATUS,    \* DW3000 status register: the event flags raised
  rx_on,         \* DW3000 receiver enabled
  hw_rx_frame,   \* DW3000 RX buffer: the last frame received (with its 2 CRC bytes)
  hw_rx_ts,      \* DW3000 RX timestamp of that frame (40 bits)
  hw_dx_time,    \* DW3000 delayed-TX time register (dwt_setdelayedtrxtime)
  hw_tx_buf,     \* DW3000 TX buffer (dwt_writetxdata)
  hw_tx_armed,   \* a transmission has been started and is not yet complete
  hw_tx_mode,    \* how it was started (the mode given to dwt_starttx)
  hw_tx_ts,      \* DW3000 TX timestamp of the last frame sent (40 bits)
  air,           \* the frame the device transmitted last (<<>>: none yet)
  nframes,       \* frames and receive errors the environment has delivered
  nlines,        \* console lines the user has typed
  ret,           \* the local ret of loop(): what dwt_starttx returned ("none": not in scope)
  tx_poll_msg,   \* tags: the poll, with the sequence number last written into it
  distance,      \* tags: the distance last computed, in units of
                 \* SPEED_OF_LIGHT * DWT_TIME_UNITS / 2 (2.35 mm), sign and magnitude
  distances_m,   \* tags: the distance stored for each anchor
  last_seen_ms,  \* tags: when each anchor was last heard
  window_over,   \* multi-anchor tag: millis() - t_start has reached MULTICOLLECT_WINDOW_MS
  nresets,       \* power cycles
  fleet,         \* what the other anchors that heard the same poll have scheduled
  discovered_devices,     \* discovery: the table, entries 0..MAX_DISCOVERED_DEVICES-1
  device_count,           \* discovery: entries created
  last_beacon_time,       \* discovery: current_time of the pass that sent the last beacon
  scan_start_time,        \* discovery: millis() as start_listening() read it
  is_scanning,            \* discovery: a listening phase is under way
  beacon_sequence,        \* discovery: sequence number of the next beacon (uint8_t)
  last_status_print,      \* discovery: current_time of the last heartbeat line
  total_frames_received,  \* discovery: frames read
  beacons_sent,           \* discovery: beacons sent
  discovery_beacon,       \* discovery: the beacon frame, with the sequence number last written
  current_time,           \* discovery: the local current_time of loop()
  device_index,           \* discovery: what find_or_create_device() returned to the last call
                          \* of process_received_frame() (NoIndex: it was not called)
  clock_ms                \* discovery: millis()

ram == <<anchor_id, frame_seq_nb, rx_buffer, tx_resp_msg, status_reg, poll_rx_ts, resp_tx_ts, total_uus,
        ret>>
tagram == <<tx_poll_msg, distance, distances_m, last_seen_ms, window_over>>
radio == <<SYS_STATUS, rx_on, hw_rx_frame, hw_rx_ts, hw_dx_time, hw_tx_buf, hw_tx_armed, hw_tx_mode,
          hw_tx_ts>>
discovery == <<discovered_devices, device_count, last_beacon_time, scan_start_time, is_scanning,
              beacon_sequence, last_status_print, total_frames_received, beacons_sent,
              discovery_beacon, current_time, device_index, clock_ms>>
\* what the steps of the ranging sketches and of their radio leave alone
env == <<nframes, nlines, nresets, fleet, discovery>>
vars == <<sketch, pc, eeprom, ram, tagram, serial_rx, out, radio, air, env>>


Line(m, i, u) == [msg |-> m, id |-> i, us |-> u]

(***************************************************************************)
(* range_rx_multi_anchor: the slot scheduler.                              *)
(***************************************************************************)
\* The slot delays for which (double)us * 1e-6 / DWT_TIME_UNITS, evaluated in IEEE-754
\* binary64, is one tick below the real quotient us * 63897.6 (which is a whole
\* number for every slot delay): the cast to uint64_t truncates it.
UsToDwtRoundsBelow == {600, 18600, 22600, 26600, 30600, 32600, 38600}

\* us_to_dwt(us) as a uint64_t; 63897.6 = 249.6 * 256
us_to_dwt(us) ==
  LET q == us * 2496
      exact == AddLE(Shl8(NatLE(q \div 10, 8)), NatLE(((q % 10) * 256) \div 10, 8))
  IN IF us \in UsToDwtRoundsBelow THEN SubLE(exact, NatLE(1, 8)) ELSE exact

\* (mutant: slots half as wide as SLOT_DELAY_US)
SlotDelayUsHalved(id) == BASE_REPLY_DLY_US + (id - 1) * (SLOT_DELAY_US \div 2)

\* total_uus = BASE_REPLY_DLY_US + (anchor_id - 1) * SLOT_DELAY_US, for anchor_id >= 1
\* (no uint32_t wrap: at most 600 + 254 * 2000)
SlotDelayUs(id) == BASE_REPLY_DLY_US + (id - 1) * SLOT_DELAY_US

\* (mutant: the slot delay is not added)
RespTxTimeNoDelay(prx, us) == Low(Shr8(prx), 4)

\* resp_tx_time32 = (uint32_t)((poll_rx_ts + us_to_dwt(total_uus)) >> 8)
RespTxTime32(prx, us) == Low(Shr8(AddLE(prx, us_to_dwt(us))), 4)

\* (mutant: the lowest bit of the programmed time is kept)
RespTxTsBit0Kept(t32) == AddLE(Shl8(Low(t32, 8)), NatLE(TX_ANT_DLY, 8))

\* resp_tx_ts = (((uint64_t)(resp_tx_time32 & 0xFFFFFFFEUL)) << 8) + TX_ANT_DLY
RespTxTs(t32) == AddLE(Shl8(Low(ClearBit0(t32), 8)), NatLE(TX_ANT_DLY, 8))

\* (mutant: the timestamp is written one byte too far)
resp_msg_set_ts_shifted(msg, idx, ts) ==
  Tup([i \in 1..Len(msg) |->
         IF i > idx + 1 /\ i <= idx + 1 + RESP_MSG_TS_LEN THEN ts[i - idx - 1] ELSE msg[i]])

\* resp_msg_set_ts(&msg[idx], ts): the low four bytes of ts, least significant first
resp_msg_set_ts(msg, idx, ts) ==
  Tup([i \in 1..Len(msg) |-> IF i > idx /\ i <= idx + RESP_MSG_TS_LEN THEN ts[i - idx] ELSE msg[i]])

\* the response frame the anchor writes to the radio
AnchorResponse(msg, id, prx, rtx) ==
  SetAt(resp_msg_set_ts(resp_msg_set_ts(msg, RESP_MSG_POLL_RX_TS_IDX, prx),
                        RESP_MSG_RESP_TX_TS_IDX, rtx),
        ALL_MSG_SN_IDX, id)

\* (mutant: the stored byte is used unchecked)
load_id_unchecked(stored) == stored

\* uint8_t load_id_or_fallback()
load_id_or_fallback(stored) == IF stored >= ID_MIN /\ stored <= ID_MAX THEN stored ELSE 1

\* (mutant: the range is checked after the cast to uint8_t)
SetidOutcomeCastFirst(lines) ==
  IF lines = <<>> THEN [kind |-> "none", v |-> 0]
  ELSE CHOOSE r \in UNION {UNION {{
         IF StartsWith(s, SETID) /\ sp > 0
         THEN IF v >= ID_MIN /\ v <= ID_MAX THEN [kind |-> "saved", v |-> v]
              ELSE [kind |-> "invalid", v |-> v]
         ELSE [kind |-> "ignored", v |-> 0]
         : v \in {ToInt(Substring(s, sp + 1)) % 256}}
         : sp \in {IndexOf(s, " ")}}
         : s \in {Trim(Head(lines))}} : TRUE

\* handle_serial_setid() on the lines waiting: what it does
\*   none: nothing to read; ignored: a line read and dropped;
\*   invalid: the diagnostic; saved: save_id_and_reboot((uint8_t)v)
\* (s, sp and v are bound through one-element sets, so that TLC evaluates them once)
SetidOutcome(lines) ==
  IF lines = <<>> THEN [kind |-> "none", v |-> 0]
  ELSE CHOOSE r \in UNION {UNION {{
         IF StartsWith(s, SETID) /\ sp > 0
         THEN IF v >= ID_MIN /\ v <= ID_MAX THEN [kind |-> "saved", v |-> v % 256]
              ELSE [kind |-> "invalid", v |-> v]
         ELSE [kind |-> "ignored", v |-> 0]
         : v \in {ToInt(Substring(s, sp + 1))}}
         : sp \in {IndexOf(s, " ")}}
         : s \in {Trim(Head(lines))}} : TRUE

(***************************************************************************)
(* ESP.restart() and power-up: the RAM and the radio start afresh, the     *)
(* EEPROM keeps its content.                                               *)
(***************************************************************************)
RadioReset ==
  /\ SYS_STATUS' = {}
  /\ rx_on' = FALSE
  /\ hw_rx_frame' = <<>>
  /\ hw_rx_ts' = Zeros(5)
  /\ hw_dx_time' = Zeros(4)
  /\ hw_tx_buf' = <<>>
  /\ hw_tx_armed' = FALSE
  /\ hw_tx_mode' = "none"
  /\ hw_tx_ts' = Zeros(5)

AnchorRamReset ==
  /\ anchor_id' = DEFAULT_ANCHOR_ID
  /\ frame_seq_nb' = 0
  /\ rx_buffer' = Zeros(20)
  /\ tx_resp_msg' = tx_resp_msg_init
  /\ status_reg' = {}
  /\ poll_rx_ts' = Zeros(8)
  /\ resp_tx_ts' = Zeros(8)
  /\ total_uus' = 0
  /\ ret' = "none"

\* (mutant: the restart without the EEPROM write)
save_id_no_write(id) ==
  /\ eeprom' = eeprom
  /\ out' = <<Line("Saved ID", id, 0)>>
  /\ pc' = "setup"
  /\ AnchorRamReset
  /\ RadioReset
  /\ serial_rx' = <<>>
  /\ UNCHANGED <<sketch, tagram, air, env>>

\* save_id_and_reboot(id)
save_id_and_reboot(id) ==
  /\ eeprom' = id
  /\ out' = <<Line("Saved ID", id, 0)>>
  /\ pc' = "setup"
  /\ AnchorRamReset
  /\ RadioReset
  /\ serial_rx' = <<>>
  /\ UNCHANGED <<sketch, tagram, air, env>>


(***************************************************************************)
(* range_rx_multi_anchor: setup() and loop().                              *)
(***************************************************************************)
MA == "range_rx_multi_anchor"

\* what handle_serial_setid() leaves when it returns (it does not return from
\* save_id_and_reboot)
SetidReturns(o) ==
  /\ serial_rx' = IF o.kind = "none" THEN serial_rx ELSE Tail(serial_rx)
  /\ out' = IF o.kind = "invalid" THEN <<Line("Invalid ID", 0, 0)>> ELSE <<>>
  /\ UNCHANGED eeprom

\* setup(), the boot window: if (Serial.available()) handle_serial_setid();
MA_SetupSerial ==
  /\ sketch = MA /\ pc = "setup"
  /\ \E o \in {SetidOutcome(serial_rx)} :
        IF o.kind = "saved" THEN save_id_and_reboot(o.v)
        ELSE /\ SetidReturns(o)
             /\ pc' = "setup_load"
             /\ UNCHANGED <<sketch, ram, tagram, radio, air, env>>

\* setup(), the rest: the identity is loaded, then the radio is brought up; a
\* failed idle check, initialisation or configuration ends in while (1);
MA_Setup ==
  /\ sketch = MA /\ pc = "setup_load"
  /\ anchor_id' = load_id_or_fallback(eeprom)
  /\ \E r \in {"ok", "IDLE FAILED", "INIT FAILED", "CONFIG FAILED"} :
       /\ pc' = IF r = "ok" THEN "loop" ELSE "halt"
       /\ out' = <<Line("Using ID", anchor_id', 0), Line(IF r = "ok" THEN "Setup over" ELSE r, 0, 0)>>
  /\ UNCHANGED <<sketch, eeprom, frame_seq_nb, rx_buffer, tx_resp_msg, status_reg, poll_rx_ts,
                 resp_tx_ts, total_uus, ret, tagram, serial_rx, radio, air, env>>

\* (mutant: loop() goes to its wait without dwt_rxenable)
MA_LoopNoRxEnable ==
  /\ sketch = MA /\ pc = "loop"
  /\ SetidReturns(SetidOutcome(serial_rx))
  /\ pc' = "wait_rx"
  /\ UNCHANGED <<sketch, ram, tagram, radio, air, env>>

\* loop(), from its top to the wait for a frame or an error:
\* handle_serial_setid(); dwt_rxenable(DWT_START_RX_IMMEDIATE);
MA_Loop ==
  /\ sketch = MA /\ pc = "loop"
  /\ \E o \in {SetidOutcome(serial_rx)} :
        IF o.kind = "saved" THEN save_id_and_reboot(o.v)
        ELSE /\ SetidReturns(o)
             /\ rx_on' = TRUE
             /\ pc' = "wait_rx"
             /\ UNCHANGED <<sketch, ram, tagram, SYS_STATUS, hw_rx_frame, hw_rx_ts, hw_dx_time,
                            hw_tx_buf, hw_tx_armed, hw_tx_mode, hw_tx_ts, air, env>>

\* loop(), the wait has ended with a good frame: the frame is read, checked against
\* the poll header and, if it is a poll, answered in this anchor's slot.
\* late: dwt_starttx(DWT_START_TX_DELAYED) fails, the programmed time has passed.
MA_RxGood(late) ==
  LET frame_len == Len(hw_rx_frame)
      buf == SetAt(ReadRxData(rx_buffer, hw_rx_frame, frame_len), ALL_MSG_SN_IDX, 0)
      is_poll == frame_len <= Len(rx_buffer) /\ MemEq(buf, rx_poll_msg, ALL_MSG_COMMON_LEN)
      us == SlotDelayUs(anchor_id)
  IN \E prx \in {Low(hw_rx_ts, 8)} :
     \E t32 \in {RespTxTime32(prx, us)} :
     \E rtx \in {RespTxTs(t32)} :
     \E msg \in {AnchorResponse(tx_resp_msg, anchor_id, prx, rtx)} :
     /\ status_reg' = SYS_STATUS
     /\ SYS_STATUS' = SYS_STATUS \ {"RXFCG"}
     /\ rx_buffer' = IF frame_len <= Len(rx_buffer) THEN buf ELSE rx_buffer
     /\ IF is_poll
        THEN /\ poll_rx_ts' = prx
             /\ total_uus' = us
             /\ hw_dx_time' = t32
             /\ resp_tx_ts' = rtx
             /\ tx_resp_msg' = msg
             /\ hw_tx_buf' = msg
             /\ hw_tx_armed' = ~late
             /\ hw_tx_mode' = IF late THEN hw_tx_mode ELSE "DWT_START_TX_DELAYED"
             /\ ret' = IF late THEN "DWT_ERROR" ELSE "DWT_SUCCESS"
             /\ pc' = IF late THEN "loop" ELSE "wait_tx"
             /\ out' = IF late THEN <<Line("Missed delayed TX window", anchor_id, us)>> ELSE <<>>
        ELSE /\ pc' = "loop"
             /\ out' = <<>>
             /\ ret' = "none"
             /\ UNCHANGED <<poll_rx_ts, total_uus, hw_dx_time, resp_tx_ts, tx_resp_msg, hw_tx_buf,
                            hw_tx_armed, hw_tx_mode>>
     /\ UNCHANGED <<sketch, eeprom, anchor_id, frame_seq_nb, tagram, serial_rx, rx_on, hw_rx_frame,
                    hw_rx_ts, hw_tx_ts, air, env>>

\* loop(), the wait has ended with a receive error: the error flags are cleared
MA_RxErr ==
  /\ status_reg' = SYS_STATUS
  /\ SYS_STATUS' = SYS_STATUS \ {"RXERR"}
  /\ pc' = "loop"
  /\ out' = <<>>
  /\ ret' = "none"
  /\ UNCHANGED <<sketch, eeprom, anchor_id, frame_seq_nb, rx_buffer, tx_resp_msg, poll_rx_ts,
                 resp_tx_ts, total_uus, tagram, serial_rx, rx_on, hw_rx_frame, hw_rx_ts, hw_dx_time,
                 hw_tx_buf, hw_tx_armed, hw_tx_mode, hw_tx_ts, air, env>>

MA_RxEvent ==
  /\ sketch = MA /\ pc = "wait_rx"
  /\ SYS_STATUS \cap {"RXFCG", "RXERR"} # {}
  /\ IF "RXFCG" \in SYS_STATUS THEN \E late \in BOOLEAN : MA_RxGood(late) ELSE MA_RxErr

\* loop(), the wait for TXFRS has ended: the flag is cleared, frame_seq_nb++
MA_TxDone ==
  /\ sketch = MA /\ pc = "wait_tx"
  /\ "TXFRS" \in SYS_STATUS
  /\ SYS_STATUS' = SYS_STATUS \ {"TXFRS"}
  /\ frame_seq_nb' = (frame_seq_nb + 1) % 256
  /\ out' = <<Line("RESP sent", anchor_id, total_uus)>>
  /\ pc' = "loop"
  /\ ret' = "none"
  /\ UNCHANGED <<sketch, eeprom, anchor_id, rx_buffer, tx_resp_msg, status_reg, poll_rx_ts,
                 resp_tx_ts, total_uus, tagram, serial_rx, rx_on, hw_rx_frame, hw_rx_ts, hw_dx_time,
                 hw_tx_buf, hw_tx_armed, hw_tx_mode, hw_tx_ts, air, env>>

(***************************************************************************)
(* range2/range_rx: Anchor A, which answers 240 UWB microseconds after the *)
(* poll.                                                                   *)
(***************************************************************************)
R2A == "range2/range_rx"

ANCHOR_ID_IDX == 18
R2A_ANCHOR_ID == 161
POLL_RX_TO_RESP_TX_DLY_UUS == 240
UUS_TO_DWT_TIME == 63898

\* setup(): a failed idle check, initialisation or configuration ends in while (1)
R2A_Setup ==
  /\ sketch = R2A /\ pc = "setup"
  /\ \E r \in {"ok", "IDLE FAILED", "INIT FAILED", "CONFIG FAILED"} :
       /\ pc' = IF r = "ok" THEN "loop" ELSE "halt"
       /\ out' = <<Line(IF r = "ok" THEN "Anchor A up" ELSE r, 0, 0)>>
  /\ UNCHANGED <<sketch, eeprom, ram, tagram, serial_rx, radio, air, env>>

\* loop(), to the wait: dwt_rxenable(DWT_START_RX_IMMEDIATE);
R2A_Loop ==
  /\ sketch = R2A /\ pc = "loop"
  /\ rx_on' = TRUE
  /\ pc' = "wait_rx"
  /\ out' = <<>>
  /\ UNCHANGED <<sketch, eeprom, ram, tagram, serial_rx, SYS_STATUS, hw_rx_frame, hw_rx_ts,
                 hw_dx_time, hw_tx_buf, hw_tx_armed, hw_tx_mode, hw_tx_ts, air, env>>

\* resp_tx_time = (poll_rx_ts + (POLL_RX_TO_RESP_TX_DLY_UUS * UUS_TO_DWT_TIME)) >> 8
R2A_RespTxTime(prx) ==
  Low(Shr8(AddLE(prx, NatLE(POLL_RX_TO_RESP_TX_DLY_UUS * UUS_TO_DWT_TIME, 8))), 4)

\* the response of Anchor A: the timestamps, its identity at byte 18, its own
\* frame counter as sequence number
R2A_Response(msg, seq, prx, rtx) ==
  SetAt(SetAt(resp_msg_set_ts(resp_msg_set_ts(msg, RESP_MSG_POLL_RX_TS_IDX, prx),
                              RESP_MSG_RESP_TX_TS_IDX, rtx),
              ANCHOR_ID_IDX, R2A_ANCHOR_ID),
        ALL_MSG_SN_IDX, seq)

\* loop(), a good frame
R2A_RxGood(late) ==
  LET frame_len == Len(hw_rx_frame)
      buf == SetAt(ReadRxData(rx_buffer, hw_rx_frame, frame_len), ALL_MSG_SN_IDX, 0)
      is_poll == frame_len <= Len(rx_buffer) /\ MemEq(buf, rx_poll_msg, ALL_MSG_COMMON_LEN)
  IN \E prx \in {Low(hw_rx_ts, 8)} :
     \E t32 \in {R2A_RespTxTime(prx)} :
     \E rtx \in {RespTxTs(t32)} :
     \E msg \in {R2A_Response(tx_resp_msg, frame_seq_nb, prx, rtx)} :
     /\ status_reg' = SYS_STATUS
     /\ SYS_STATUS' = SYS_STATUS \ {"RXFCG"}
     /\ rx_buffer' = IF frame_len <= Len(rx_buffer) THEN buf ELSE rx_buffer
     /\ out' = <<>>
     /\ IF is_poll
        THEN /\ poll_rx_ts' = prx
             /\ hw_dx_time' = t32
             /\ resp_tx_ts' = rtx
             /\ tx_resp_msg' = msg
             /\ hw_tx_buf' = msg
             /\ hw_tx_armed' = ~late
             /\ hw_tx_mode' = IF late THEN hw_tx_mode ELSE "DWT_START_TX_DELAYED"
             /\ ret' = IF late THEN "DWT_ERROR" ELSE "DWT_SUCCESS"
             /\ pc' = IF late THEN "loop" ELSE "wait_tx"
        ELSE /\ pc' = "loop"
             /\ ret' = "none"
             /\ UNCHANGED <<poll_rx_ts, hw_dx_time, resp_tx_ts, tx_resp_msg, hw_tx_buf, hw_tx_armed,
                            hw_tx_mode>>
     /\ UNCHANGED <<sketch, eeprom, anchor_id, frame_seq_nb, total_uus, tagram, serial_rx, rx_on,
                    hw_rx_frame, hw_rx_ts, hw_tx_ts, air, env>>

\* loop(), the wait has ended with a good frame or with a receive error
R2A_RxEvent ==
  /\ sketch = R2A /\ pc = "wait_rx"
  /\ SYS_STATUS \cap {"RXFCG", "RXERR"} # {}
  /\ IF "RXFCG" \in SYS_STATUS THEN \E late \in BOOLEAN : R2A_RxGood(late) ELSE MA_RxErr

\* loop(), the wait for TXFRS has ended: the flag is cleared, frame_seq_nb++
R2A_TxDone ==
  /\ sketch = R2A /\ pc = "wait_tx"
  /\ "TXFRS" \in SYS_STATUS
  /\ SYS_STATUS' = SYS_STATUS \ {"TXFRS"}
  /\ frame_seq_nb' = (frame_seq_nb + 1) % 256
  /\ out' = <<>>
  /\ pc' = "loop"
  /\ ret' = "none"
  /\ UNCHANGED <<sketch, eeprom, anchor_id, rx_buffer, tx_resp_msg, status_reg, poll_rx_ts,
                 resp_tx_ts, total_uus, tagram, serial_rx, rx_on, hw_rx_frame, hw_rx_ts, hw_dx_time,
                 hw_tx_buf, hw_tx_armed, hw_tx_mode, hw_tx_ts, air, env>>

(***************************************************************************)
(* part_006: the anchor of the indoor positioning example, which answers   *)
(* at once and polls the radio from loop().                                *)
(***************************************************************************)
P6 == "part_006"

P6_ANCHOR_ID == 1
P6_RXFLEN_MASK == 127

\* setup(): the failures are reported and setup goes on; the anchor identity is
\* written over byte 9 of the response; the receiver is turned on
P6_Setup ==
  /\ sketch = P6 /\ pc = "setup"
  /\ \E r \in {"ok", "DW3000 not responding", "init failed", "config failed"} :
       out' = <<Line(r, 0, 0), Line("Running as UWB Anchor", P6_ANCHOR_ID, 0)>>
  /\ tx_resp_msg' = SetAt(tx_resp_msg, 9, P6_ANCHOR_ID)
  /\ rx_on' = TRUE
  /\ pc' = "loop"
  /\ UNCHANGED <<sketch, eeprom, anchor_id, frame_seq_nb, rx_buffer, status_reg, poll_rx_ts,
                 resp_tx_ts, total_uus, ret, tagram, serial_rx, SYS_STATUS, hw_rx_frame, hw_rx_ts,
                 hw_dx_time, hw_tx_buf, hw_tx_armed, hw_tx_mode, hw_tx_ts, air, env>>

\* resp_tx_ts_to_msg(ts_msg, ts_msg_idx, ts)
resp_tx_ts_to_msg(msg, idx, ts) ==
  Tup([i \in 1..Len(msg) |-> IF i > idx /\ i <= idx + RESP_MSG_TS_LEN THEN ts[i - idx] ELSE msg[i]])

\* loop() -> processPolls() when the status shows a good frame or a receive error
\* (with neither, processPolls() does nothing).  A good frame is compared with the
\* poll header, sequence number included; a poll is answered by sendResponse(), up to
\* its wait for the end of the transmission.
P6_ProcessPolls ==
  /\ sketch = P6 /\ pc = "loop"
  /\ SYS_STATUS \cap {"RXFCG", "RXERR"} # {}
  /\ status_reg' = SYS_STATUS
  /\ IF "RXFCG" \in SYS_STATUS
     THEN LET frame_len == Len(hw_rx_frame) % (P6_RXFLEN_MASK + 1)
              buf == IF frame_len <= Len(rx_buffer)
                     THEN ReadRxData(rx_buffer, hw_rx_frame, frame_len)
                     ELSE rx_buffer
              is_poll == frame_len <= Len(rx_buffer) /\ MemEq(buf, rx_poll_msg, 10)
              tag_seq == At(buf, 2)
              msg == SetAt(tx_resp_msg, 2, tag_seq)
          IN /\ rx_buffer' = buf
             /\ IF is_poll
                THEN /\ out' = <<Line("Poll from tag", tag_seq, 0)>>
                     /\ poll_rx_ts' = Low(hw_rx_ts, 8)
                     /\ tx_resp_msg' = msg
                     /\ SYS_STATUS' = SYS_STATUS \ {"RXFCG", "TXFRS"}
                     /\ hw_tx_buf' = msg
                     /\ hw_tx_armed' = TRUE
                     /\ hw_tx_mode' = "DWT_START_TX_IMMEDIATE"
                     /\ ret' = "DWT_SUCCESS"
                     /\ pc' = "wait_tx"
                     /\ UNCHANGED rx_on
                ELSE /\ out' = <<>>
                     /\ SYS_STATUS' = SYS_STATUS \ {"RXFCG"}
                     /\ rx_on' = TRUE
                     /\ ret' = "none"
                     /\ pc' = "loop"
                     /\ UNCHANGED <<poll_rx_ts, tx_resp_msg, hw_tx_buf, hw_tx_armed, hw_tx_mode>>
     ELSE /\ SYS_STATUS' = SYS_STATUS \ {"RXERR"}
          /\ rx_on' = TRUE
          /\ out' = <<>>
          /\ ret' = "none"
          /\ pc' = "loop"
          /\ UNCHANGED <<rx_buffer, poll_rx_ts, tx_resp_msg, hw_tx_buf, hw_tx_armed, hw_tx_mode>>
  /\ UNCHANGED <<sketch, eeprom, anchor_id, frame_seq_nb, resp_tx_ts, total_uus, tagram, serial_rx,
                 hw_rx_frame, hw_rx_ts, hw_dx_time, hw_tx_ts, air, env>>

\* sendResponse(), from the end of the transmission: the TX timestamp is read, both
\* timestamps are written into the message (they go out with the next response);
\* processPolls() then turns the receiver on again
P6_TxDone ==
  /\ sketch = P6 /\ pc = "wait_tx"
  /\ "TXFRS" \in SYS_STATUS
  /\ resp_tx_ts' = Low(hw_tx_ts, 8)
  /\ tx_resp_msg' = resp_tx_ts_to_msg(resp_tx_ts_to_msg(tx_resp_msg, RESP_MSG_POLL_RX_TS_IDX,
                                                        poll_rx_ts),
                                      RESP_MSG_RESP_TX_TS_IDX, resp_tx_ts')
  /\ out' = <<Line("Response sent", 0, 0)>>
  /\ rx_on' = TRUE
  /\ ret' = "none"
  /\ pc' = "loop"
  /\ UNCHANGED <<sketch, eeprom, anchor_id, frame_seq_nb, rx_buffer, status_reg, poll_rx_ts,
                 total_uus, tagram, serial_rx, SYS_STATUS, hw_rx_frame, hw_rx_ts, hw_dx_time,
                 hw_tx_buf, hw_tx_armed, hw_tx_mode, hw_tx_ts, air, env>>

(***************************************************************************)
(* The tags' arithmetic: int32_t differences of uint32_t timestamps, and   *)
(* the single-precision expression rtd_init - rtd_resp * (1 -              *)
(* clockOffsetRatio).  Numbers with a sign are records [neg, mag], the     *)
(* magnitude a 5-byte number.  The clock offset register reads 0 (tag and  *)
(* anchor clocks of equal rate), so that 1 - clockOffsetRatio is 1.0f.     *)
(***************************************************************************)
ZeroDist == [neg |-> FALSE, mag |-> Zeros(5)]

\* (int32_t)x of a uint32_t
Int32(a) ==
  IF a[4] >= 128 THEN [neg |-> TRUE, mag |-> Low(SubLE(Zeros(4), a), 5)]
  ELSE [neg |-> FALSE, mag |-> Low(a, 5)]

\* x >> 1
Half(v) ==
  Tup([i \in 1..Len(v) |-> (v[i] \div 2) + (IF i < Len(v) THEN (v[i + 1] % 2) * 128 ELSE 0)])

\* x << k
RECURSIVE ShlBits(_, _)
ShlBits(v, k) == IF k = 0 THEN v ELSE CHOOSE x \in {ShlBits(w, k - 1) : w \in {AddLE(v, v)}} : TRUE

\* x < 2^24: x has no more bits than the significand of a float
Fits24(v) == \A i \in 4..Len(v) : v[i] = 0

\* v * 2^k rounded to 24 significant bits, to nearest, ties to even; r is the bit
\* dropped last and s tells whether a 1 was dropped before it (the value passed on
\* is drawn from a one-element set, which TLC evaluates once)
RECURSIVE RoundShift(_, _, _, _)
RoundShift(v, r, s, k) ==
  IF Fits24(v)
  THEN ShlBits(IF r = 1 /\ (s \/ v[1] % 2 = 1) THEN AddLE(v, <<1>>) ELSE v, k)
  ELSE CHOOSE x \in {RoundShift(w, v[1] % 2, s \/ r = 1, k + 1) : w \in {Half(v)}} : TRUE

\* (float)x
F32(x) == CHOOSE f \in {[neg |-> y.neg, mag |-> RoundShift(y.mag, 0, FALSE, 0)] : y \in {x}} : TRUE

\* (mutant: y - x)
MinusSwapped(x, y) ==
  IF x.neg # y.neg THEN [neg |-> y.neg, mag |-> AddLE(x.mag, y.mag)]
  ELSE IF x.mag = y.mag THEN ZeroDist
  ELSE IF LessLE(x.mag, y.mag) THEN [neg |-> y.neg, mag |-> SubLE(y.mag, x.mag)]
  ELSE [neg |-> ~y.neg, mag |-> SubLE(x.mag, y.mag)]

\* x - y, exactly
Minus(x, y) ==
  IF x.neg # y.neg THEN [neg |-> x.neg, mag |-> AddLE(x.mag, y.mag)]
  ELSE IF x.mag = y.mag THEN ZeroDist
  ELSE IF LessLE(y.mag, x.mag) THEN [neg |-> x.neg, mag |-> SubLE(x.mag, y.mag)]
  ELSE [neg |-> ~x.neg, mag |-> SubLE(y.mag, x.mag)]

\* (mutant: the anchor's reply time is not subtracted)
EstimateNoReply(rtd_init, rtd_resp) == F32(Int32(rtd_init))

\* rtd_init - rtd_resp * (1 - clockOffsetRatio) with clockOffsetRatio = 0: the
\* distance in units of SPEED_OF_LIGHT * DWT_TIME_UNITS / 2
Estimate(rtd_init, rtd_resp) == F32(Minus(F32(Int32(rtd_init)), F32(Int32(rtd_resp))))

\* resp_msg_get_ts(&rx_buffer[idx], &ts)
resp_msg_get_ts(buf, idx) == SubSeq(buf, idx + 1, idx + RESP_MSG_TS_LEN)

\* the response header the tags compare with
rx_resp_msg == tx_resp_msg_init

(***************************************************************************)
(* range_tx_tag_esp32_web: the tag that collects the responses of several  *)
(* anchors for MULTICOLLECT_WINDOW_MS after each poll.                     *)
(***************************************************************************)
MT == "range_tx_tag_esp32_web"

MAX_ANCHORS == 20
MULTICOLLECT_WINDOW_MS == 60
POLL_TX_TO_RESP_RX_DLY_UUS == 240

\* millis(), counted in what has happened around the device
Millis == nframes

\* setup()
MT_Setup ==
  /\ sketch = MT /\ pc = "setup"
  /\ distances_m' = [i \in 0..(MAX_ANCHORS - 1) |-> ZeroDist]
  /\ last_seen_ms' = [i \in 0..(MAX_ANCHORS - 1) |-> 0]
  /\ \E r \in {"ok", "IDLE FAILED", "INIT FAILED", "CONFIG FAILED"} :
       /\ pc' = IF r = "ok" THEN "loop" ELSE "halt"
       /\ out' = <<Line(IF r = "ok" THEN "Setup over" ELSE r, 0, 0)>>
  /\ UNCHANGED <<sketch, eeprom, ram, tx_poll_msg, distance, window_over, serial_rx, radio, air,
                 env>>

\* loop(), the poll: the sequence number is written, TXFRS cleared, the poll sent at
\* once with the receiver to follow (the radio leaves the receiver to transmit)
MT_Loop ==
  /\ sketch = MT /\ pc = "loop"
  /\ frame_seq_nb # MaxPolls
  /\ tx_poll_msg' = SetAt(tx_poll_msg, ALL_MSG_SN_IDX, frame_seq_nb)
  /\ SYS_STATUS' = SYS_STATUS \ {"TXFRS"}
  /\ hw_tx_buf' = tx_poll_msg'
  /\ hw_tx_armed' = TRUE
  /\ hw_tx_mode' = "DWT_RESPONSE_EXPECTED"
  /\ rx_on' = FALSE
  /\ window_over' = FALSE
  /\ pc' = "window"
  /\ out' = <<>>
  /\ UNCHANGED <<sketch, eeprom, ram, distance, distances_m, last_seen_ms, serial_rx,
                 hw_rx_frame, hw_rx_ts, hw_dx_time, hw_tx_ts, air, env>>

\* (mutant: the identity byte indexes the arrays unchecked)
MT_WindowFrameAnyId ==
  LET frame_len == IF Len(hw_rx_frame) > Len(rx_buffer) THEN Len(rx_buffer) ELSE Len(hw_rx_frame)
  IN /\ sketch = MT /\ pc = "window" /\ ~window_over
     /\ "RXFCG" \in SYS_STATUS
     /\ \E read \in {ReadRxData(rx_buffer, hw_rx_frame, frame_len)} :
        \E id \in {At(read, ALL_MSG_SN_IDX)} :
        \E buf \in {SetAt(read, ALL_MSG_SN_IDX, 0)} :
        \E header_ok \in {frame_len >= ALL_MSG_COMMON_LEN /\ MemEq(buf, rx_resp_msg, ALL_MSG_COMMON_LEN)} :
        \E prx \in {resp_msg_get_ts(buf, RESP_MSG_POLL_RX_TS_IDX)} :
        \E rtx \in {resp_msg_get_ts(buf, RESP_MSG_RESP_TX_TS_IDX)} :
        \E rtd_init \in {SubLE(Low(hw_rx_ts, 4), Low(hw_tx_ts, 4))} :
        \E rtd_resp \in {SubLE(rtx, prx)} :
        \E d \in {Estimate(rtd_init, rtd_resp)} :
        /\ SYS_STATUS' = SYS_STATUS \ {"RXFCG"}
        /\ status_reg' = SYS_STATUS
        /\ rx_buffer' = buf
        /\ anchor_id' = id
        /\ IF header_ok
           THEN /\ poll_rx_ts' = prx
                /\ resp_tx_ts' = rtx
                /\ distance' = d
                /\ distances_m' = (id :> d) @@ distances_m
                /\ last_seen_ms' = (id :> Millis) @@ last_seen_ms
                /\ out' = <<Line("[TAG] A", id, d)>>
           ELSE /\ out' = <<>>
                /\ UNCHANGED <<poll_rx_ts, resp_tx_ts, distance, distances_m, last_seen_ms>>
        /\ rx_on' = TRUE
        /\ UNCHANGED <<sketch, pc, eeprom, frame_seq_nb, tx_resp_msg, total_uus, ret, tx_poll_msg,
                       window_over, serial_rx, hw_rx_frame, hw_rx_ts, hw_dx_time, hw_tx_buf, hw_tx_armed,
                       hw_tx_mode, hw_tx_ts, air, env>>

\* loop(), in the window, a good frame: read, the anchor identity taken from byte 2,
\* the header compared, the distance computed, stored and printed; the receiver is
\* turned on again
MT_WindowFrame ==
  LET frame_len == IF Len(hw_rx_frame) > Len(rx_buffer) THEN Len(rx_buffer) ELSE Len(hw_rx_frame)
  IN /\ sketch = MT /\ pc = "window" /\ ~window_over
     /\ "RXFCG" \in SYS_STATUS
     /\ \E read \in {ReadRxData(rx_buffer, hw_rx_frame, frame_len)} :
        \E id \in {At(read, ALL_MSG_SN_IDX)} :
        \E buf \in {SetAt(read, ALL_MSG_SN_IDX, 0)} :
        \E header_ok \in {frame_len >= ALL_MSG_COMMON_LEN /\ MemEq(buf, rx_resp_msg, ALL_MSG_COMMON_LEN)} :
        \E prx \in {resp_msg_get_ts(buf, RESP_MSG_POLL_RX_TS_IDX)} :
        \E rtx \in {resp_msg_get_ts(buf, RESP_MSG_RESP_TX_TS_IDX)} :
        \E rtd_init \in {SubLE(Low(hw_rx_ts, 4), Low(hw_tx_ts, 4))} :
        \E rtd_resp \in {SubLE(rtx, prx)} :
        \E d \in {Estimate(rtd_init, rtd_resp)} :
        /\ SYS_STATUS' = SYS_STATUS \ {"RXFCG"}
        /\ status_reg' = SYS_STATUS
        /\ rx_buffer' = buf
        /\ anchor_id' = id
        /\ IF header_ok
           THEN /\ poll_rx_ts' = prx
                /\ resp_tx_ts' = rtx
                /\ distance' = d
                /\ IF id < MAX_ANCHORS
                   THEN /\ distances_m' = [distances_m EXCEPT ![id] = d]
                        /\ last_seen_ms' = [last_seen_ms EXCEPT ![id] = Millis]
                        /\ out' = <<Line("[TAG] A", id, d)>>
                   ELSE /\ out' = <<Line("DIST:", 0, d)>>
                        /\ UNCHANGED <<distances_m, last_seen_ms>>
           ELSE /\ out' = <<>>
                /\ UNCHANGED <<poll_rx_ts, resp_tx_ts, distance, distances_m, last_seen_ms>>
        /\ rx_on' = TRUE
        /\ UNCHANGED <<sketch, pc, eeprom, frame_seq_nb, tx_resp_msg, total_uus, ret, tx_poll_msg,
                       window_over, serial_rx, hw_rx_frame, hw_rx_ts, hw_dx_time, hw_tx_buf, hw_tx_armed,
                       hw_tx_mode, hw_tx_ts, air, env>>

\* (mutant: a receive error or timeout ends the cycle)
MT_WindowErrEndsCycle ==
  /\ sketch = MT /\ pc = "window" /\ ~window_over
  /\ "RXFCG" \notin SYS_STATUS
  /\ SYS_STATUS \cap {"RXTO", "RXERR"} # {}
  /\ status_reg' = SYS_STATUS
  /\ SYS_STATUS' = SYS_STATUS \ {"RXTO", "RXERR"}
  /\ frame_seq_nb' = (frame_seq_nb + 1) % 256
  /\ pc' = "loop"
  /\ out' = <<>>
  /\ UNCHANGED <<sketch, eeprom, anchor_id, rx_buffer, tx_resp_msg, poll_rx_ts, resp_tx_ts,
                 total_uus, ret, tagram, serial_rx, rx_on, hw_rx_frame, hw_rx_ts, hw_dx_time,
                 hw_tx_buf, hw_tx_armed, hw_tx_mode, hw_tx_ts, air, env>>

\* loop(), in the window, a receive error or timeout: cleared, receiver on again
MT_WindowErr ==
  /\ sketch = MT /\ pc = "window" /\ ~window_over
  /\ "RXFCG" \notin SYS_STATUS
  /\ SYS_STATUS \cap {"RXTO", "RXERR"} # {}
  /\ status_reg' = SYS_STATUS
  /\ SYS_STATUS' = SYS_STATUS \ {"RXTO", "RXERR"}
  /\ rx_on' = TRUE
  /\ out' = <<>>
  /\ UNCHANGED <<sketch, pc, eeprom, anchor_id, frame_seq_nb, rx_buffer, tx_resp_msg, poll_rx_ts,
                 resp_tx_ts, total_uus, ret, tagram, serial_rx, hw_rx_frame, hw_rx_ts, hw_dx_time,
                 hw_tx_buf, hw_tx_armed, hw_tx_mode, hw_tx_ts, air, env>>

\* a loop() whose window only closes once a frame has been seen in it
MT_WindowEndAfterFrame ==
  /\ sketch = MT /\ pc = "window" /\ window_over
  /\ hw_rx_frame # <<>>
  /\ frame_seq_nb' = (frame_seq_nb + 1) % 256
  /\ pc' = "loop"
  /\ out' = <<>>
  /\ UNCHANGED <<sketch, eeprom, anchor_id, rx_buffer, tx_resp_msg, status_reg, poll_rx_ts,
                 resp_tx_ts, total_uus, ret, tagram, serial_rx, radio, air, env>>

\* (mutant: the window is left as soon as a frame has been handled in it)
MT_WindowEndEarly ==
  /\ sketch = MT /\ pc = "window" /\ (window_over \/ rx_buffer # Zeros(Len(rx_buffer)))
  /\ frame_seq_nb' = (frame_seq_nb + 1) % 256
  /\ pc' = "loop"
  /\ out' = <<>>
  /\ UNCHANGED <<sketch, eeprom, anchor_id, rx_buffer, tx_resp_msg, status_reg, poll_rx_ts,
                 resp_tx_ts, total_uus, ret, tagram, serial_rx, radio, air, env>>

\* the clock: millis() - t_start reaches MULTICOLLECT_WINDOW_MS while the sketch is
\* in the loops of the window
MT_WindowExpires ==
  /\ sketch = MT /\ pc = "window" /\ ~window_over
  /\ window_over' = TRUE
  /\ UNCHANGED <<sketch, pc, eeprom, ram, tx_poll_msg, distance, distances_m, last_seen_ms,
                 serial_rx, out, radio, air, env>>

\* (mutant: the window ends without frame_seq_nb++)
MT_WindowEndSameSeq ==
  /\ sketch = MT /\ pc = "window" /\ window_over
  /\ pc' = "loop"
  /\ out' = <<>>
  /\ UNCHANGED <<sketch, eeprom, ram, tagram, serial_rx, radio, air, env>>

\* loop(), MULTICOLLECT_WINDOW_MS have passed (the tests of l.131, l.138 and l.141):
\* frame_seq_nb++ and the sleep
MT_WindowEnd ==
  /\ sketch = MT /\ pc = "window" /\ window_over
  /\ frame_seq_nb' = (frame_seq_nb + 1) % 256
  /\ pc' = "loop"
  /\ out' = <<>>
  /\ UNCHANGED <<sketch, eeprom, anchor_id, rx_buffer, tx_resp_msg, status_reg, poll_rx_ts,
                 resp_tx_ts, total_uus, ret, tagram, serial_rx, radio, air, env>>

(***************************************************************************)
(* range2/range_tx: the tag that waits SW_COLLECT_US for one frame after   *)
(* each poll and prints what it received.                                  *)
(***************************************************************************)
R2T == "range2/range_tx"

\* setup()
R2T_Setup ==
  /\ sketch = R2T /\ pc = "setup"
  /\ \E r \in {"ok", "IDLE FAILED", "INIT FAILED", "CONFIG FAILED"} :
       /\ pc' = IF r = "ok" THEN "loop" ELSE "halt"
       /\ out' = <<Line(IF r = "ok" THEN "Config OK" ELSE r, 0, 0)>>
  /\ UNCHANGED <<sketch, eeprom, ram, tagram, serial_rx, radio, air, env>>

\* the poll of range2/range_tx and of part_008: tx_poll_msg[2] = seq++, TXFRS and the
\* receive error and timeout flags cleared, the poll sent at once with the receiver
\* to follow (the radio leaves the receiver to transmit)
SendPoll ==
  /\ frame_seq_nb # MaxPolls
  /\ tx_poll_msg' = SetAt(tx_poll_msg, ALL_MSG_SN_IDX, frame_seq_nb)
  /\ frame_seq_nb' = (frame_seq_nb + 1) % 256
  /\ SYS_STATUS' = SYS_STATUS \ {"TXFRS", "RXTO", "RXERR"}
  /\ hw_tx_buf' = tx_poll_msg'
  /\ hw_tx_armed' = TRUE
  /\ hw_tx_mode' = "DWT_RESPONSE_EXPECTED"
  /\ rx_on' = FALSE
  /\ pc' = "wait"
  /\ UNCHANGED <<sketch, eeprom, anchor_id, rx_buffer, tx_resp_msg, status_reg, poll_rx_ts,
                 resp_tx_ts, total_uus, ret, distance, distances_m, last_seen_ms, window_over,
                 serial_rx,
                 hw_rx_frame, hw_rx_ts, hw_dx_time, hw_tx_ts, air, env>>

\* loop(), to the software wait
R2T_Loop ==
  /\ sketch = R2T /\ pc = "loop"
  /\ SendPoll
  /\ out' = <<Line("TAG: TX poll", 0, 0)>>

\* loop(), in the software wait, a receive error: cleared, the receiver on again
R2T_RxErr ==
  /\ sketch = R2T /\ pc = "wait"
  /\ "RXFCG" \notin SYS_STATUS /\ "RXERR" \in SYS_STATUS
  /\ status_reg' = SYS_STATUS
  /\ SYS_STATUS' = SYS_STATUS \ {"RXERR"}
  /\ rx_on' = TRUE
  /\ out' = <<>>
  /\ UNCHANGED <<sketch, pc, eeprom, anchor_id, frame_seq_nb, rx_buffer, tx_resp_msg, poll_rx_ts,
                 resp_tx_ts, total_uus, ret, tagram, serial_rx, hw_rx_frame, hw_rx_ts, hw_dx_time,
                 hw_tx_buf, hw_tx_armed, hw_tx_mode, hw_tx_ts, air, env>>

\* loop(), the software wait ends without a good frame
R2T_Timeout ==
  /\ sketch = R2T /\ pc = "wait"
  /\ "RXFCG" \notin SYS_STATUS
  /\ status_reg' = SYS_STATUS
  /\ out' = <<Line("SW TIMEOUT", 0, 0)>>
  /\ pc' = "loop"
  /\ UNCHANGED <<sketch, eeprom, anchor_id, frame_seq_nb, rx_buffer, tx_resp_msg, poll_rx_ts,
                 resp_tx_ts, total_uus, ret, tagram, serial_rx, radio, air, env>>

\* loop(), a good frame: read and printed; from 20 bytes on its header is compared
\* with the response header on a copy, and on a match the distance is computed and
\* printed with the byte at ANCHOR_ID_IDX as the anchor
R2T_Frame ==
  LET frame_len == IF Len(hw_rx_frame) > Len(rx_buffer) THEN Len(rx_buffer) ELSE Len(hw_rx_frame)
  IN /\ sketch = R2T /\ pc = "wait"
     /\ "RXFCG" \in SYS_STATUS
     /\ \E buf \in {ReadRxData(rx_buffer, hw_rx_frame, frame_len)} :
        \E hdr_cmp \in {SetAt(SubSeq(buf, 1, ALL_MSG_COMMON_LEN), ALL_MSG_SN_IDX, 0)} :
        \E prx \in {resp_msg_get_ts(buf, RESP_MSG_POLL_RX_TS_IDX)} :
        \E rtx \in {resp_msg_get_ts(buf, RESP_MSG_RESP_TX_TS_IDX)} :
        \E rtd_init \in {SubLE(Low(hw_rx_ts, 4), Low(hw_tx_ts, 4))} :
        \E rtd_resp \in {SubLE(rtx, prx)} :
        \E d \in {Estimate(rtd_init, rtd_resp)} :
        \E id \in {IF frame_len > ANCHOR_ID_IDX THEN At(buf, ANCHOR_ID_IDX) ELSE 255} :
        \E match \in {frame_len >= 20 /\ MemEq(hdr_cmp, rx_resp_msg, ALL_MSG_COMMON_LEN)} :
        /\ status_reg' = SYS_STATUS
        /\ SYS_STATUS' = SYS_STATUS \ {"RXFCG"}
        /\ rx_buffer' = buf
        /\ IF match
           THEN /\ poll_rx_ts' = prx
                /\ resp_tx_ts' = rtx
                /\ distance' = d
                /\ anchor_id' = id
                /\ out' = <<Line("RX len=", frame_len, 0), Line("DIST from A ", id, d)>>
           ELSE /\ out' = <<Line("RX len=", frame_len, 0)>>
                           \o (IF frame_len >= 20 THEN <<Line("Frame header didn't match", 0, 0)>>
                               ELSE <<>>)
                /\ UNCHANGED <<poll_rx_ts, resp_tx_ts, distance, anchor_id>>
        /\ pc' = "loop"
        /\ UNCHANGED <<sketch, eeprom, frame_seq_nb, tx_resp_msg, total_uus, ret, tx_poll_msg,
                       distances_m, last_seen_ms, window_over, serial_rx, rx_on, hw_rx_frame, hw_rx_ts,
                       hw_dx_time,
                       hw_tx_buf, hw_tx_armed, hw_tx_mode, hw_tx_ts, air, env>>

(***************************************************************************)
(* part_008: the tag of the indoor positioning example.                    *)
(***************************************************************************)
P8 == "part_008"

P8_RXFLEN_MASK == 127

\* the largest estimate, in units of SPEED_OF_LIGHT * DWT_TIME_UNITS / 2, that is a
\* distance below 1000 (metres)
MaxPlausibleUnits == 426406

\* distance > 0 && distance < 1000
Plausible(d) ==
  /\ ~d.neg
  /\ d.mag # Zeros(5)
  /\ (d.mag = NatLE(MaxPlausibleUnits, 5) \/ LessLE(d.mag, NatLE(MaxPlausibleUnits, 5)))

\* setup(): ends in while (1) if the radio cannot be brought up
P8_Setup ==
  /\ sketch = P8 /\ pc = "setup"
  /\ \E r \in {"ok", "IDLE FAILED", "INIT FAILED", "CONFIG FAILED"} :
       /\ pc' = IF r = "ok" THEN "loop" ELSE "halt"
       /\ out' = <<Line(IF r = "ok" THEN "Running as UWB Tag" ELSE r, 0, 0)>>
  /\ UNCHANGED <<sketch, eeprom, ram, tagram, serial_rx, radio, air, env>>

\* loop() -> performRanging(), to its wait
P8_PerformRanging ==
  /\ sketch = P8 /\ pc = "loop"
  /\ SendPoll
  /\ out' = <<>>

\* performRanging(), a good frame -> processRangeResponse(): from 20 bytes on the
\* distance is computed, whatever the header; it is printed and handed to
\* fresh_link() if it is above 0 and below 1000; the receiver is turned on again
P8_ProcessRangeResponse ==
  LET len == Len(hw_rx_frame) % (P8_RXFLEN_MASK + 1)
      frame_len == IF len > Len(rx_buffer) THEN Len(rx_buffer) ELSE len
  IN /\ sketch = P8 /\ pc = "wait"
     /\ "RXFCG" \in SYS_STATUS
     /\ \E buf \in {ReadRxData(rx_buffer, hw_rx_frame, frame_len)} :
        \E anchor_addr \in {At(buf, 6) * 256 + At(buf, 5)} :
        \E prx \in {resp_msg_get_ts(buf, RESP_MSG_POLL_RX_TS_IDX)} :
        \E rtx \in {resp_msg_get_ts(buf, RESP_MSG_RESP_TX_TS_IDX)} :
        \E rtd_init \in {SubLE(Low(hw_rx_ts, 4), Low(hw_tx_ts, 4))} :
        \E rtd_resp \in {SubLE(rtx, prx)} :
        \E d \in {Estimate(rtd_init, rtd_resp)} :
        /\ status_reg' = SYS_STATUS
        /\ SYS_STATUS' = SYS_STATUS \ {"RXFCG"}
        /\ rx_buffer' = buf
        /\ IF frame_len >= 20
           THEN /\ poll_rx_ts' = prx
                /\ resp_tx_ts' = rtx
                /\ distance' = d
                /\ anchor_id' = anchor_addr
                /\ out' = IF Plausible(d)
                          THEN <<Line("Range from anchor ", anchor_addr, d),
                                 Line("fresh_link", anchor_addr, d)>>
                          ELSE <<>>
           ELSE /\ out' = <<>>
                /\ UNCHANGED <<poll_rx_ts, resp_tx_ts, distance, anchor_id>>
        /\ rx_on' = TRUE
        /\ pc' = "loop"
        /\ UNCHANGED <<sketch, eeprom, frame_seq_nb, tx_resp_msg, total_uus, ret, tx_poll_msg,
                       distances_m, last_seen_ms, window_over, serial_rx, hw_rx_frame, hw_rx_ts,
                       hw_dx_time,
                       hw_tx_buf, hw_tx_armed, hw_tx_mode, hw_tx_ts, air, env>>

\* performRanging(), a receive error (cleared) or 5 ms without a good frame: the
\* receiver is turned on, and the tag waits before its next poll
P8_NoResponse ==
  /\ sketch = P8 /\ pc = "wait"
  /\ "RXFCG" \notin SYS_STATUS
  /\ status_reg' = SYS_STATUS
  /\ SYS_STATUS' = SYS_STATUS \ {"RXERR"}
  /\ rx_on' = TRUE
  /\ out' = <<>>
  /\ pc' = "loop"
  /\ UNCHANGED <<sketch, eeprom, anchor_id, frame_seq_nb, rx_buffer, tx_resp_msg, poll_rx_ts,
                 resp_tx_ts, total_uus, ret, tagram, serial_rx, hw_rx_frame, hw_rx_ts, hw_dx_time,
                 hw_tx_buf, hw_tx_armed, hw_tx_mode, hw_tx_ts, air, env>>

(***************************************************************************)
(* The DW3000 and the world around the device.                             *)
(***************************************************************************)
\* the poll of a tag, as it is on air
Poll(seq) == OnAir(SetAt(rx_poll_msg, ALL_MSG_SN_IDX, seq))

\* RX timestamps of the polls an anchor receives (40 bits): zero, one whose low
\* byte carries into the >> 8, one that wraps the 40-bit counter when the slot delay
\* is added, and the last tick before the wrap
RxTsSamples ==
  {Zeros(5), <<1, 1, 0, 0, 0>>, <<7, 200, 113, 250, 255>>, <<255, 255, 255, 255, 255>>}

\* the first ten bytes of a message with a sequence number
Header(msg, seq) == SubSeq(SetAt(msg, ALL_MSG_SN_IDX, seq), 1, ALL_MSG_COMMON_LEN)

\* frames shorter than the header that begin as msg does: 0 to 7 bytes and the FCS
ShortFrames(msg) == {Fcs(SubSeq(msg, 1, n)) : n \in 0..(ALL_MSG_COMMON_LEN - 3)}

\* frames that are not polls: a poll with another function code, an anchor's
\* response, a poll header in another frame type, a poll too long for the 20-byte
\* buffers
NotPolls ==
  {Fcs(<<65, 136, 3, 202, 222, 87, 65, 86, 69, 225>>),
   OnAir(SetAt(tx_resp_msg_init, ALL_MSG_SN_IDX, 4)),
   Fcs(<<97, 136, 3, 202, 222, 87, 65, 86, 69, 224>>),
   Fcs(Header(rx_poll_msg, 5) \o Zeros(12))}

\* what an anchor may receive with a good FCS, each frame with its RX timestamp
AnchorRxEvents ==
  {<<Poll(0), ts>> : ts \in RxTsSamples}
  \cup {<<f, Zeros(5)>> : f \in {Poll(9), Poll(255)} \cup NotPolls \cup ShortFrames(rx_poll_msg)}

\* the frames of the runs that vary the console input: polls, and one other frame
IdRxEvents ==
  {<<Poll(0), Zeros(5)>>, <<Poll(9), <<7, 200, 113, 250, 255>>>>,
   <<Fcs(<<65, 136, 3, 202, 222, 87, 65, 86, 69, 225>>), Zeros(5)>>}

\* a frame is received: RXFCG is raised and the receiver turns off
Radio_RxFrame(events, max) ==
  /\ rx_on /\ nframes < max
  /\ \E e \in events :
       /\ hw_rx_frame' = e[1]
       /\ hw_rx_ts' = e[2]
  /\ SYS_STATUS' = SYS_STATUS \cup {"RXFCG"}
  /\ rx_on' = FALSE
  /\ nframes' = nframes + 1
  /\ UNCHANGED <<sketch, pc, eeprom, ram, tagram, serial_rx, out, hw_dx_time, hw_tx_buf,
                 hw_tx_armed, hw_tx_mode, hw_tx_ts, air, nlines, nresets, fleet, discovery>>

\* a reception fails (PHY header, CRC, SFD timeout ...) and an error flag is
\* raised, or, in the sketch that sets a receive timeout, nothing is received in
\* that time and the timeout flag is raised
Radio_RxError(max) ==
  /\ rx_on /\ nframes < max
  /\ \E flag \in {"RXERR"} \cup (IF sketch = MT THEN {"RXTO"} ELSE {}) :
       SYS_STATUS' = SYS_STATUS \cup {flag}
  /\ rx_on' = FALSE
  /\ nframes' = nframes + 1
  /\ UNCHANGED <<sketch, pc, eeprom, ram, tagram, serial_rx, out, hw_rx_frame, hw_rx_ts,
                 hw_dx_time, hw_tx_buf, hw_tx_armed, hw_tx_mode, hw_tx_ts, air, nlines, nresets,
                 fleet, discovery>>

\* TX timestamps of the frames a device sends at once (40 bits)
TxTsSamples == {Zeros(5), <<200, 255, 255, 255, 255>>}

\* the transmission that was started completes: the frame has gone out with its FCS,
\* the time it left is in the TX timestamp (for a delayed start: the programmed time
\* without its lowest bit, plus the antenna delay), TXFRS is raised, and if a response
\* is expected the receiver turns on
Radio_TxDoneAt(samples) ==
  /\ hw_tx_armed
  /\ hw_tx_armed' = FALSE
  /\ hw_tx_mode' = "none"
  /\ SYS_STATUS' = SYS_STATUS \cup {"TXFRS"}
  /\ air' = OnAir(hw_tx_buf)
  /\ IF hw_tx_mode = "DWT_START_TX_DELAYED"
     THEN hw_tx_ts' = Low(RespTxTs(hw_dx_time), 5)
     ELSE hw_tx_ts' \in samples
  /\ rx_on' = (rx_on \/ hw_tx_mode = "DWT_RESPONSE_EXPECTED")
  /\ UNCHANGED <<sketch, pc, eeprom, ram, tagram, serial_rx, out, hw_rx_frame, hw_rx_ts,
                 hw_dx_time, hw_tx_buf, env>>

Radio_TxDone == Radio_TxDoneAt(TxTsSamples)

\* RX timestamps of the polls whose responses a tag receives, as the anchors hold
\* them (uint64_t)
PollRxTsSamples == {<<1, 1, 0, 0, 0, 0, 0, 0>>, <<7, 200, 113, 250, 255, 0, 0, 0>>}

\* identities of the multi-anchor anchors whose responses a tag receives
IdSamples == {ID_MIN, 19, ID_MAX}

\* the exchanges of the multi-anchor anchors: the anchor's identity, its two
\* timestamps, and its response as it is on air
MA_Exchange(id, prx, rtx) ==
  [id |-> id, prx |-> prx, rtx |-> rtx,
   frame |-> OnAir(AnchorResponse(tx_resp_msg_init, id, prx, rtx))]

MA_Exchanges ==
  {MA_Exchange(id, prx, RespTxTs(RespTxTime32(prx, SlotDelayUs(id)))) :
     id \in IdSamples, prx \in PollRxTsSamples}

MA_Responses == {e.frame : e \in MA_Exchanges}

\* a response of Anchor A of range2
R2A_Responses ==
  {OnAir(R2A_Response(tx_resp_msg_init, 0, prx, RespTxTs(R2A_RespTxTime(prx)))) :
     prx \in PollRxTsSamples}

\* a response of Anchor A of range2 after 255 exchanges: byte 2 holds its
\* frame_seq_nb, a uint8_t that has counted up to 255
R2A_LateResponses ==
  {OnAir(R2A_Response(tx_resp_msg_init, 255, prx, RespTxTs(R2A_RespTxTime(prx)))) :
     prx \in {<<1, 1, 0, 0, 0, 0, 0, 0>>}}

\* the first response of the part_006 anchor: its identity in byte 9, the poll's
\* sequence number, no timestamps yet
P6_Responses == {OnAir(SetAt(SetAt(tx_resp_msg_init, 9, P6_ANCHOR_ID), 2, 1))}

\* frames with the response header that end before the timestamps do: the header
\* alone, and the header with the first timestamp
TruncatedResponses ==
  {Fcs(Header(tx_resp_msg_init, 5)),
   Fcs(SubSeq(AnchorResponse(tx_resp_msg_init, 5, <<1, 2, 3, 4>>, Zeros(4)), 1, 14))}

\* a response header in a frame longer than any response
LongResponses == {Fcs(Header(tx_resp_msg_init, 7) \o Zeros(24))}

\* RX timestamps of the frames a tag receives (40 bits)
RespRxTsSamples == {<<232, 3, 0, 0, 0>>, <<0, 0, 0, 128, 0>>}

\* what a tag may receive with a good FCS, each frame with its RX timestamp
TagRxEvents ==
  {<<f, ts>> : f \in R2A_Responses \cup P6_Responses, ts \in RespRxTsSamples}
  \cup {<<f, <<232, 3, 0, 0, 0>>>> :
          f \in MA_Responses \cup R2A_LateResponses \cup TruncatedResponses \cup LongResponses
                \cup {Poll(9)}
                \cup ShortFrames(tx_resp_msg_init)}

\* the user types a line on the console
Console ==
  /\ serial_rx = <<>> /\ nlines < MaxConsole
  /\ pc # "halt"
  /\ \E l \in ConsoleLines : serial_rx' = <<l>>
  /\ nlines' = nlines + 1
  /\ UNCHANGED <<sketch, pc, eeprom, ram, tagram, out, radio, air, nframes, nresets, fleet,
                 discovery>>

\* the anchor loses power and starts again
MA_PowerCycle ==
  /\ sketch = MA /\ nresets < MaxResets
  /\ pc' = "setup"
  /\ AnchorRamReset
  /\ RadioReset
  /\ serial_rx' = <<>>
  /\ out' = <<>>
  /\ nresets' = nresets + 1
  /\ UNCHANGED <<sketch, eeprom, tagram, air, nframes, nlines, fleet, discovery>>

\* what the EEPROM byte may hold when the sketch is first flashed: 255 on an erased
\* flash, or whatever an earlier program stored
EepromSamples == {0, 7, 20, 21, 255}

(***************************************************************************)
(* tag_discovery: the beacon, the scan that follows it and the table of    *)
(* the devices heard.                                                      *)
(***************************************************************************)
TD == "tag_discovery"

DISCOVERY_BEACON_INTERVAL_MS == 2000
LISTEN_DURATION_MS == 1000
MAX_DISCOVERED_DEVICES == 20
STATUS_INTERVAL_MS == 5000
DEVICE_TIMEOUT_MS == 30000
FRAME_LEN_MAX == 127
FCS_LEN == 2

\* static uint8_t discovery_beacon[]: 0xC1, the sequence number, 0xFFFF, 0xFFFF,
\* "DISCOVER"
discovery_beacon_init == <<193, 0, 255, 255, 255, 255, 68, 73, 83, 67, 79, 86, 69, 82>>

\* now - then on uint32_t
Elapsed(now, then) == SubLE(NatLE(now, 4), NatLE(then, 4))

\* a uint32_t is at least ms, is more than ms
AtLeast(e, ms) == ~LessLE(e, NatLE(ms, 4))
MoreThan(e, ms) == LessLE(NatLE(ms, 4), e)

\* an entry of discovered_devices after memset(discovered_devices, 0, ...)
NoDevice ==
  [device_id |-> Zeros(8), frame_type |-> 0, rssi |-> 0, first_path_power |-> 0,
   last_seen |-> 0, frame_count |-> 0, is_active |-> FALSE]

NoDevices == [i \in 0..(MAX_DISCOVERED_DEVICES - 1) |-> NoDevice]

\* device_index when process_received_frame() has not called find_or_create_device()
NoIndex == -2

\* the globals of the sketch as the program is loaded
DiscoveryOff ==
  /\ discovered_devices = NoDevices
  /\ device_count = 0
  /\ last_beacon_time = 0
  /\ scan_start_time = 0
  /\ is_scanning = FALSE
  /\ beacon_sequence = 0
  /\ last_status_print = 0
  /\ total_frames_received = 0
  /\ beacons_sent = 0
  /\ discovery_beacon = discovery_beacon_init
  /\ current_time = 0
  /\ device_index = NoIndex
  /\ clock_ms = 0

\* dwt_readdiagnostics: the Ipatov power of the frame received
IpatovSamples == {0, 2000}

\* 10.0 * log10((float)p) in hundredths, rounded down (33.0103 for 2000)
TenLog10(p) == CASE p = 2000 -> 3301

\* int16_t get_rssi(): (int16_t)(10.0 * log10(p) - 113.77), the cast truncates
\* towards zero; -100 when the power is 0
get_rssi(p) == IF p > 0 THEN 0 - ((11377 - TenLog10(p)) \div 100) ELSE -100

\* uint16_t get_first_path_power()
get_first_path_power(p) == p % 65536

\* (mutant: an entry is created whether or not there is room)
find_or_create_unbounded(tbl, cnt, id) ==
  LET found == {i \in 0..(cnt - 1) : tbl[i].is_active /\ tbl[i].device_id = id}
  IN IF found # {}
     THEN [index |-> CHOOSE i \in found : \A j \in found : i <= j, tbl |-> tbl, cnt |-> cnt]
     ELSE [index |-> cnt,
           tbl |-> IF cnt < MAX_DISCOVERED_DEVICES
                   THEN [tbl EXCEPT ![cnt] = [@ EXCEPT !.device_id = id, !.is_active = TRUE,
                                                       !.frame_count = 0]]
                   ELSE (cnt :> [NoDevice EXCEPT !.device_id = id, !.is_active = TRUE]) @@ tbl,
           cnt |-> cnt + 1]

\* int find_or_create_device(uint8_t* device_id): the index returned, the table and
\* device_count as it leaves them
find_or_create_device(tbl, cnt, id) ==
  LET found == {i \in 0..(cnt - 1) : tbl[i].is_active /\ tbl[i].device_id = id}
  IN IF found # {}
     THEN [index |-> CHOOSE i \in found : \A j \in found : i <= j, tbl |-> tbl, cnt |-> cnt]
     ELSE IF cnt < MAX_DISCOVERED_DEVICES
     THEN [index |-> cnt,
           tbl |-> [tbl EXCEPT ![cnt] = [@ EXCEPT !.device_id = id, !.is_active = TRUE,
                                               !.frame_count = 0]],
           cnt |-> cnt + 1]
     ELSE [index |-> -1, tbl |-> tbl, cnt |-> cnt]

\* print_device_info(i)
print_device_info(tbl, i) == Line("Device: ", i, tbl[i].frame_count)

\* the device identifier process_received_frame() takes from a frame of frame_len
\* bytes: up to 8 bytes from rx_buffer[2], padded with zeros
DeviceIdOf(buf, frame_len) ==
  LET id_len == IF frame_len - 2 < 8 THEN frame_len - 2 ELSE 8
  IN Tup([i \in 1..8 |-> IF i <= id_len THEN At(buf, 1 + i) ELSE 0])

\* the frame looks like the sketch's own beacon
OwnBeacon(buf, frame_len) ==
  /\ At(buf, 0) = 193
  /\ frame_len = Len(discovery_beacon) - FCS_LEN
  /\ \A i \in 4..11 : At(buf, i) = At(discovery_beacon, i)

\* void process_received_frame(uint16_t frame_len), with the Ipatov power p the
\* diagnostics hold and millis() = now
process_received_frame(tbl, cnt, buf, frame_len, p, now) ==
  IF frame_len < 2 \/ OwnBeacon(buf, frame_len)
  THEN [index |-> NoIndex, tbl |-> tbl, cnt |-> cnt, lines |-> <<>>]
  ELSE LET r == find_or_create_device(tbl, cnt, DeviceIdOf(buf, frame_len))
           t == IF r.index >= 0
                THEN [r.tbl EXCEPT ![r.index] =
                        [@ EXCEPT !.frame_type = At(buf, 0),
                                  !.rssi = get_rssi(p),
                                  !.first_path_power = get_first_path_power(p),
                                  !.last_seen = now,
                                  !.frame_count = (@ + 1) % 65536]]
                ELSE r.tbl
       IN [index |-> r.index, tbl |-> t, cnt |-> r.cnt,
           lines |-> IF r.index >= 0 THEN <<print_device_info(t, r.index)>> ELSE <<>>]

\* void check_for_frames(), on the status st with the receiver on or off (on) and
\* rx_buffer = buf: what it leaves
check_for_frames(st, on, buf, p, now) ==
  LET frame_len == Len(hw_rx_frame)
      reads == frame_len <= FRAME_LEN_MAX /\ frame_len > 2
      read == IF reads THEN ReadRxData(buf, hw_rx_frame, frame_len - FCS_LEN) ELSE buf
      r == IF reads
           THEN process_received_frame(discovered_devices, device_count, read,
                                       frame_len - FCS_LEN, p, now)
           ELSE [index |-> NoIndex, tbl |-> discovered_devices, cnt |-> device_count,
                 lines |-> <<>>]
  IN IF "RXFCG" \in st
     THEN [st |-> st \ {"RXFCG"}, on |-> TRUE, buf |-> read, index |-> r.index, tbl |-> r.tbl,
           cnt |-> r.cnt, lines |-> r.lines,
           total |-> IF reads THEN total_frames_received + 1 ELSE total_frames_received]
     ELSE [st |-> st \ {"RXERR"}, on |-> on \/ "RXERR" \in st, buf |-> buf, index |-> NoIndex,
           tbl |-> discovered_devices, cnt |-> device_count, lines |-> <<>>,
           total |-> total_frames_received]

\* the lines of the active devices i, i + 1, ..., cnt - 1
RECURSIVE ActiveLines(_, _, _)
ActiveLines(tbl, cnt, i) ==
  IF i >= cnt THEN <<>>
  ELSE (IF tbl[i].is_active THEN <<print_device_info(tbl, i)>> ELSE <<>>)
       \o ActiveLines(tbl, cnt, i + 1)

\* cleanup_old_devices() finds the entry timed out
IsTimedOut(e, now) == e.is_active /\ MoreThan(Elapsed(now, e.last_seen), DEVICE_TIMEOUT_MS)

RECURSIVE TimedOutLines(_, _, _, _)
TimedOutLines(tbl, cnt, now, i) ==
  IF i >= cnt THEN <<>>
  ELSE (IF IsTimedOut(tbl[i], now) THEN <<Line("Device timed out: ", i, 0)>> ELSE <<>>)
       \o TimedOutLines(tbl, cnt, now, i + 1)

\* void cleanup_old_devices(): the table as it leaves it
cleanup_old_devices(tbl, cnt, now) ==
  [i \in DOMAIN tbl |-> IF i < cnt /\ IsTimedOut(tbl[i], now)
                        THEN [tbl[i] EXCEPT !.is_active = FALSE]
                        ELSE tbl[i]]

\* void print_discovery_summary(): what it prints, the lines of cleanup_old_devices()
\* included
print_discovery_summary(tbl, cnt, total, sent, now) ==
  <<Line("--- Discovery Summary ---", 0, 0),
    Line("Total devices discovered: ", cnt, 0),
    Line("Total frames received: ", total, 0),
    Line("Beacons sent: ", sent, 0)>>
  \o (IF cnt > 0 THEN <<Line("Active devices:", 0, 0)>> \o ActiveLines(tbl, cnt, 0)
      ELSE <<Line("No devices discovered in this scan cycle.", 0, 0)>>)
  \o <<Line("========================", 0, 0)>>
  \o TimedOutLines(tbl, cnt, now, 0)

\* loop() from "if (is_scanning)" to its end, entered with is_scanning = scanning,
\* scan_start_time = start, the status st, the receiver on or off, rx_buffer = buf,
\* current_time = ct, beacons_sent = sent, and having printed the lines first
TD_RestOfLoop(scanning, start, st, on, buf, ct, sent, first) ==
  \E p \in IpatovSamples :
  \E c \in {IF scanning THEN check_for_frames(st, on, buf, p, clock_ms)
            ELSE [st |-> st, on |-> on, buf |-> buf, index |-> NoIndex,
                  tbl |-> discovered_devices, cnt |-> device_count, lines |-> <<>>,
                  total |-> total_frames_received]} :
  \E ends \in {scanning /\ AtLeast(Elapsed(ct, start), LISTEN_DURATION_MS)} :
  \E beat \in {AtLeast(Elapsed(ct, last_status_print), STATUS_INTERVAL_MS)} :
    /\ (p # 0 => scanning /\ "RXFCG" \in st)
    /\ SYS_STATUS' = c.st
    /\ status_reg' = IF scanning THEN st ELSE status_reg
    /\ rx_on' = c.on
    /\ rx_buffer' = c.buf
    /\ device_index' = c.index
    /\ device_count' = c.cnt
    /\ total_frames_received' = c.total
    /\ discovered_devices' = IF ends THEN cleanup_old_devices(c.tbl, c.cnt, clock_ms) ELSE c.tbl
    /\ is_scanning' = (scanning /\ ~ends)
    /\ scan_start_time' = start
    /\ last_status_print' = IF beat THEN ct ELSE last_status_print
    /\ out' = first \o c.lines
              \o (IF ends
                  THEN print_discovery_summary(c.tbl, c.cnt, c.total, sent, clock_ms)
                  ELSE <<>>)
              \o (IF beat THEN <<Line("Listening", sent, c.cnt)>> ELSE <<>>)

\* the untouched state of the other sketches
TD_Others ==
  UNCHANGED <<sketch, eeprom, anchor_id, frame_seq_nb, tx_resp_msg, poll_rx_ts, resp_tx_ts,
              total_uus, ret, tagram, serial_rx, hw_rx_frame, hw_rx_ts, hw_dx_time, air,
              nframes, nlines, nresets, fleet>>

\* the DW3000 fails the idle check this many times at most
MaxIdleRetries == 1

\* setup(): while (!dwt_checkidlerc()) prints the error and waits a second;
\* dwt_initialise or dwt_configure failing ends in while (1); otherwise the table
\* is cleared and the two timers start
TD_Setup ==
  /\ sketch = TD /\ pc = "setup"
  /\ \E r \in {"ok", "IDLE FAILED", "INIT FAILED", "CONFIG FAILED"} :
       /\ r = "IDLE FAILED" => clock_ms < MaxIdleRetries * 1000
       /\ pc' = CASE r = "ok" -> "loop" [] r = "IDLE FAILED" -> "setup" [] OTHER -> "halt"
       /\ out' = <<Line(IF r = "ok" THEN "Starting tag discovery..." ELSE r, 0, 0)>>
       /\ clock_ms' = IF r = "IDLE FAILED" THEN clock_ms + 1000 ELSE clock_ms
       /\ discovered_devices' = IF r = "ok" THEN NoDevices ELSE discovered_devices
       /\ last_beacon_time' = IF r = "ok" THEN clock_ms ELSE last_beacon_time
       /\ last_status_print' = IF r = "ok" THEN clock_ms ELSE last_status_print
  /\ UNCHANGED <<device_count, scan_start_time, is_scanning, beacon_sequence,
                 total_frames_received, beacons_sent, discovery_beacon, current_time,
                 device_index, rx_buffer, status_reg, radio>>
  /\ TD_Others

\* the beacon is due at the top of loop()
BeaconDue ==
  ~is_scanning /\ AtLeast(Elapsed(clock_ms, last_beacon_time), DISCOVERY_BEACON_INTERVAL_MS)

\* loop(), a pass in which no beacon is due
TD_Loop ==
  /\ sketch = TD /\ pc = "loop"
  /\ ~BeaconDue
  /\ current_time' = clock_ms
  /\ TD_RestOfLoop(is_scanning, scan_start_time, SYS_STATUS, rx_on, rx_buffer, clock_ms,
                   beacons_sent, <<>>)
  /\ pc' = "loop"
  /\ UNCHANGED <<last_beacon_time, beacon_sequence, beacons_sent, discovery_beacon, clock_ms,
                 hw_tx_buf, hw_tx_armed, hw_tx_mode, hw_tx_ts>>
  /\ TD_Others

\* loop(), a pass in which the beacon is due, up to the wait for TXFRS in
\* send_discovery_beacon(): the sequence number is written, the frame started
TD_LoopBeacon ==
  /\ sketch = TD /\ pc = "loop"
  /\ BeaconDue
  /\ current_time' = clock_ms
  /\ discovery_beacon' = SetAt(discovery_beacon, 1, beacon_sequence)
  /\ beacon_sequence' = (beacon_sequence + 1) % 256
  /\ hw_tx_buf' = discovery_beacon' \o Zeros(FCS_LEN)
  /\ hw_tx_armed' = TRUE
  /\ hw_tx_mode' = "DWT_START_TX_IMMEDIATE"
  /\ rx_on' = FALSE
  /\ pc' = "wait_tx"
  /\ out' = <<>>
  /\ UNCHANGED <<discovered_devices, device_count, last_beacon_time, scan_start_time,
                 is_scanning, last_status_print, total_frames_received, beacons_sent,
                 device_index, clock_ms, rx_buffer, status_reg, SYS_STATUS, hw_tx_ts>>
  /\ TD_Others

\* loop(), the beacon has gone out: TXFRS is cleared, the beacon counted and
\* printed, start_listening() clears rx_buffer, turns the receiver on and takes
\* scan_start_time = millis(); last_beacon_time = current_time; then the rest of
\* the pass
TD_BeaconSent ==
  /\ sketch = TD /\ pc = "wait_tx"
  /\ "TXFRS" \in SYS_STATUS
  /\ beacons_sent' = beacons_sent + 1
  /\ last_beacon_time' = current_time
  /\ current_time' = current_time
  /\ TD_RestOfLoop(TRUE, clock_ms, SYS_STATUS \ {"TXFRS"}, TRUE, Zeros(FRAME_LEN_MAX),
                   current_time, beacons_sent + 1,
                   <<Line("Beacon sent #", beacons_sent + 1, 0)>>)
  /\ pc' = "loop"
  /\ UNCHANGED <<beacon_sequence, discovery_beacon, clock_ms, hw_tx_buf, hw_tx_armed,
                 hw_tx_mode, hw_tx_ts>>
  /\ TD_Others

\* the next moment at which a pass of loop() has something to do
NextDeadline ==
  LET a == IF is_scanning THEN scan_start_time + LISTEN_DURATION_MS
           ELSE last_beacon_time + DISCOVERY_BEACON_INTERVAL_MS
      b == last_status_print + STATUS_INTERVAL_MS
  IN IF a < b THEN a ELSE b

\* time passes, in passes of loop() that find nothing to do (delay(10) and again),
\* up to the moment at which one does, and no further than the moment last
TD_TickUpTo(last) ==
  /\ sketch = TD /\ pc = "loop"
  /\ clock_ms < NextDeadline /\ NextDeadline <= last
  /\ ~(is_scanning /\ SYS_STATUS \cap {"RXFCG", "RXERR"} # {})
  /\ clock_ms' = NextDeadline
  /\ UNCHANGED <<sketch, pc, eeprom, ram, tagram, serial_rx, out, radio, air, nframes, nlines,
                 nresets, fleet, discovered_devices, device_count, last_beacon_time,
                 scan_start_time, is_scanning, beacon_sequence, last_status_print,
                 total_frames_received, beacons_sent, discovery_beacon, current_time,
                 device_index>>

\* millis() moves on by one while loop() waits for the beacon to go out
TD_TxTick ==
  /\ sketch = TD /\ pc = "wait_tx"
  /\ clock_ms = current_time
  /\ clock_ms' = clock_ms + 1
  /\ UNCHANGED <<sketch, pc, eeprom, ram, tagram, serial_rx, out, radio, air, nframes, nlines,
                 nresets, fleet, discovered_devices, device_count, last_beacon_time,
                 scan_start_time, is_scanning, beacon_sequence, last_status_print,
                 total_frames_received, beacons_sent, discovery_beacon, current_time,
                 device_index>>

\* sizeof(rx_buffer) in each sketch
RxBufferSize(sk) ==
  CASE sk = MA -> 20
    [] sk = R2A -> 20
    [] sk = P6 -> 64
    [] sk = MT -> 32
    [] sk = R2T -> 64
    [] sk = P8 -> 64
    [] sk = TD -> FRAME_LEN_MAX

\* a device as it powers up
PowerUp ==
  /\ pc = "setup"
  /\ anchor_id = DEFAULT_ANCHOR_ID
  /\ frame_seq_nb = 0
  /\ rx_buffer = Zeros(RxBufferSize(sketch))
  /\ tx_resp_msg = tx_resp_msg_init
  /\ status_reg = {}
  /\ poll_rx_ts = Zeros(8)
  /\ resp_tx_ts = Zeros(8)
  /\ total_uus = 0
  /\ serial_rx = <<>>
  /\ out = <<>>
  /\ SYS_STATUS = {}
  /\ rx_on = FALSE
  /\ hw_rx_frame = <<>>
  /\ hw_rx_ts = Zeros(5)
  /\ hw_dx_time = Zeros(4)
  /\ hw_tx_buf = <<>>
  /\ hw_tx_armed = FALSE
  /\ hw_tx_mode = "none"
  /\ hw_tx_ts = Zeros(5)
  /\ ret = "none"
  /\ tx_poll_msg = rx_poll_msg
  /\ distance = ZeroDist
  /\ distances_m = <<>>
  /\ last_seen_ms = <<>>
  /\ window_over = FALSE
  /\ air = <<>>
  /\ nframes = 0
  /\ nlines = 0
  /\ nresets = 0
  /\ fleet = {}
  /\ DiscoveryOff

InitAnchorMulti ==
  /\ sketch = MA
  /\ eeprom \in EepromSamples
  /\ PowerUp

\* the multi-anchor Anchor with its console, its EEPROM and its restarts
NextAnchorId ==
  \/ MA_SetupSerial
  \/ MA_Setup
  \/ MA_Loop
  \/ MA_RxEvent
  \/ MA_TxDone
  \/ Radio_RxFrame(IdRxEvents, MaxIdFrames)
  \/ Radio_RxError(MaxIdFrames)
  \/ Radio_TxDone
  \/ Console
  \/ MA_PowerCycle

SpecAnchorId == InitAnchorMulti /\ [][NextAnchorId]_vars

(***************************************************************************)
(* The tag discovery sketch on a device, with the frames its radio         *)
(* receives and the time that passes.                                      *)
(***************************************************************************)
\* the identifier of device k: the 8 bytes that follow the first two of its frames
DevId(k) == <<k, 0, 0, 0, 0, 0, 0, 0>>

\* a frame of device k as it is on air: a type, a sequence number, the identifier
DeviceFrame(k) == Fcs(<<65, 7>> \o DevId(k))

\* what the discovery sketch may receive with a good FCS: frames of device 1 and of
\* two devices that no table of 20 holds, a 3-byte frame whose padded identifier is
\* that of device 1, a 1-byte frame, the first 12 bytes of a beacon, and the
\* beacon of another discovery sketch
TdRxEvents ==
  {<<f, Zeros(5)>> :
     f \in {DeviceFrame(1), DeviceFrame(MAX_DISCOVERED_DEVICES + 1),
            DeviceFrame(MAX_DISCOVERED_DEVICES + 2),
            Fcs(<<65, 7, 1>>), Fcs(<<65>>),
            Fcs(SubSeq(discovery_beacon_init, 1, 12)), Fcs(discovery_beacon_init)}}

\* the table after n devices, 1 to n, have each been heard once in the first scan
\* (at 2000 ms, with an Ipatov power of 2000) and k scans have ended: the scan
\* that ends at 2000 * k + 1000 ms finds them timed out if that is more than
\* DEVICE_TIMEOUT_MS after 2000 ms
Heard(n, k) ==
  [i \in 0..(MAX_DISCOVERED_DEVICES - 1) |->
     IF i < n
     THEN [device_id |-> DevId(i + 1), frame_type |-> 65, rssi |-> get_rssi(2000),
           first_path_power |-> get_first_path_power(2000), last_seen |-> 2000,
           frame_count |-> 1,
           is_active |-> ~(k >= 1 /\ 2000 * k + 1000 - 2000 > DEVICE_TIMEOUT_MS)]
     ELSE NoDevice]

\* the sketch after k scans (k >= 2), as the beacon k + 1 is due, when n devices
\* answered the first beacon and nothing has been received since
AfterScans(k, n) ==
  /\ sketch = TD /\ pc = "loop" /\ eeprom = 255
  /\ discovered_devices = Heard(n, k)
  /\ device_count = n
  /\ total_frames_received = n
  /\ beacons_sent = k
  /\ beacon_sequence = k % 256
  /\ discovery_beacon = SetAt(discovery_beacon_init, 1, (k - 1) % 256)
  /\ last_beacon_time = 2000 * k
  /\ scan_start_time = 2000 * k
  /\ is_scanning = FALSE
  /\ last_status_print = ((2000 * k + 1000) \div STATUS_INTERVAL_MS) * STATUS_INTERVAL_MS
  /\ current_time = 2000 * k + 1000
  /\ device_index = NoIndex
  /\ clock_ms = 2000 * (k + 1)
  /\ anchor_id = DEFAULT_ANCHOR_ID
  /\ frame_seq_nb = 0
  /\ rx_buffer = Zeros(FRAME_LEN_MAX)
  /\ tx_resp_msg = tx_resp_msg_init
  /\ status_reg = {}
  /\ poll_rx_ts = Zeros(8)
  /\ resp_tx_ts = Zeros(8)
  /\ total_uus = 0
  /\ ret = "none"
  /\ tx_poll_msg = rx_poll_msg
  /\ distance = ZeroDist
  /\ distances_m = <<>>
  /\ last_seen_ms = <<>>
  /\ window_over = FALSE
  /\ serial_rx = <<>>
  /\ out = print_discovery_summary(Heard(n, k - 1), n, n, k, 2000 * k + 1000)
  /\ SYS_STATUS = {}
  /\ rx_on = TRUE
  /\ hw_rx_frame = IF n = 0 THEN <<>> ELSE DeviceFrame(n)
  /\ hw_rx_ts = Zeros(5)
  /\ hw_dx_time = Zeros(4)
  /\ hw_tx_buf = discovery_beacon \o Zeros(FCS_LEN)
  /\ hw_tx_armed = FALSE
  /\ hw_tx_mode = "none"
  /\ hw_tx_ts = Zeros(5)
  /\ air = OnAir(hw_tx_buf)
  /\ nframes = 0
  /\ nlines = 0
  /\ nresets = 0
  /\ fleet = {}

\* scans run before the first state: the devices heard in the first scan are about
\* to time out; the next beacon carries the sequence number 255
ScansBefore == 15
ScansLongBefore == 255

\* the sketch powers up, or has run ScansBefore scans with a table that is full or
\* has one entry left, or ScansLongBefore scans with a full table
InitDiscovery ==
  \/ sketch = TD /\ eeprom = 255 /\ PowerUp
  \/ \E n \in {MAX_DISCOVERED_DEVICES - 1, MAX_DISCOVERED_DEVICES} : AfterScans(ScansBefore, n)
  \/ AfterScans(ScansLongBefore, MAX_DISCOVERED_DEVICES)

\* the time for which a run is followed
MaxRunMs == 3000

\* the moments at which the runs start
RunStarts == {0, 2000 * (ScansBefore + 1), 2000 * (ScansLongBefore + 1)}

TD_Tick == \E t0 \in RunStarts : t0 <= clock_ms /\ TD_TickUpTo(t0 + MaxRunMs)

NextDiscovery ==
  \/ TD_Setup
  \/ TD_Loop
  \/ TD_LoopBeacon
  \/ TD_BeaconSent
  \/ TD_Tick
  \/ TD_TxTick
  \/ Radio_RxFrame(TdRxEvents, MaxFrames)
  \/ Radio_RxError(MaxFrames)
  \/ Radio_TxDone

SpecDiscovery == InitDiscovery /\ [][NextDiscovery]_vars

(***************************************************************************)
(* Ranging: any one of the six sketches on a device, with the frames its   *)
(* radio receives.                                                         *)
(***************************************************************************)
Anchors == {MA, R2A, P6}
Tags == {MT, R2T, P8}

RxEvents == IF sketch \in Anchors THEN AnchorRxEvents ELSE TagRxEvents

InitRanging ==
  /\ sketch \in Anchors \cup Tags
  /\ eeprom \in (IF sketch = MA THEN {ID_MIN, ID_MAX} ELSE {255})
  /\ PowerUp

NextRanging ==
  \/ MA_SetupSerial
  \/ MA_Setup
  \/ MA_Loop
  \/ MA_RxEvent
  \/ MA_TxDone
  \/ R2A_Setup
  \/ R2A_Loop
  \/ R2A_RxEvent
  \/ R2A_TxDone
  \/ P6_Setup
  \/ P6_ProcessPolls
  \/ P6_TxDone
  \/ MT_Setup
  \/ MT_Loop
  \/ MT_WindowFrame
  \/ MT_WindowErr
  \/ MT_WindowExpires
  \/ MT_WindowEnd
  \/ R2T_Setup
  \/ R2T_Loop
  \/ R2T_RxErr
  \/ R2T_Timeout
  \/ R2T_Frame
  \/ P8_Setup
  \/ P8_PerformRanging
  \/ P8_ProcessRangeResponse
  \/ P8_NoResponse
  \/ Radio_RxFrame(RxEvents, MaxFrames)
  \/ Radio_RxError(MaxFrames)
  \/ Radio_TxDone

SpecRanging == InitRanging /\ [][NextRanging]_vars

(***************************************************************************)
(* Ranging as time passes: a loop on millis() or micros() ends when its    *)
(* time is up.  Nothing is assumed of the radio: it may raise no further   *)
(* event.                                                                  *)
(***************************************************************************)
\* the frames of these runs: a poll with each kind of sequence number for the
\* anchors; a response, a truncated response and another anchor's frame for the tags
LiveRxEvents ==
  IF sketch \in Anchors
  THEN {<<Poll(0), Zeros(5)>>, <<Poll(9), <<1, 1, 0, 0, 0>>>>}
  ELSE {<<f, <<232, 3, 0, 0, 0>>>> :
          f \in {MA_Exchange(ID_MIN, Zeros(8), RespTxTs(RespTxTime32(Zeros(8), SlotDelayUs(ID_MIN)))).frame}
                \cup P6_Responses \cup {Fcs(Header(tx_resp_msg_init, 5))}}

NextLive ==
  \/ MA_SetupSerial
  \/ MA_Setup
  \/ MA_Loop
  \/ MA_RxEvent
  \/ MA_TxDone
  \/ R2A_Setup
  \/ R2A_Loop
  \/ R2A_RxEvent
  \/ R2A_TxDone
  \/ P6_Setup
  \/ P6_ProcessPolls
  \/ P6_TxDone
  \/ MT_Setup
  \/ MT_Loop
  \/ MT_WindowFrame
  \/ MT_WindowErr
  \/ MT_WindowExpires
  \/ MT_WindowEnd
  \/ R2T_Setup
  \/ R2T_Loop
  \/ R2T_RxErr
  \/ R2T_Timeout
  \/ R2T_Frame
  \/ P8_Setup
  \/ P8_PerformRanging
  \/ P8_ProcessRangeResponse
  \/ P8_NoResponse
  \/ Radio_RxFrame(LiveRxEvents, MaxFrames)
  \/ Radio_RxError(MaxFrames)
  \/ Radio_TxDone

\* the time of a tag's wait is up: MULTICOLLECT_WINDOW_MS, SW_COLLECT_US, 5 ms
WindowPasses == MT_WindowExpires \/ MT_WindowEnd \/ R2T_Timeout \/ P8_NoResponse

SpecLive == InitRanging /\ [][NextLive]_vars /\ WF_vars(WindowPasses)

(***************************************************************************)
(* The tags under any stream of radio events: as SpecLive, and the radio   *)
(* of a tag may raise a good frame or an error whenever its receiver is    *)
(* on, without end and without count.  Time passes, and loop() runs on: the sketch has one   *)
(* thread and nothing blocks it outside the loops modelled here.           *)
(***************************************************************************)
\* a tag's receiver takes a frame or fails, one more time
Radio_RxFlood ==
  /\ sketch \in Tags /\ rx_on
  /\ \/ /\ \E e \in LiveRxEvents :
             /\ hw_rx_frame' = e[1]
             /\ hw_rx_ts' = e[2]
        /\ SYS_STATUS' = SYS_STATUS \cup {"RXFCG"}
     \/ /\ \E flag \in {"RXERR"} \cup (IF sketch = MT THEN {"RXTO"} ELSE {}) :
             SYS_STATUS' = SYS_STATUS \cup {flag}
        /\ UNCHANGED <<hw_rx_frame, hw_rx_ts>>
  /\ rx_on' = FALSE
  /\ UNCHANGED <<sketch, pc, eeprom, ram, tagram, serial_rx, out, hw_dx_time, hw_tx_buf,
                 hw_tx_armed, hw_tx_mode, hw_tx_ts, air, env>>

\* a tag is powered up
InitPolls == InitRanging /\ sketch \in Tags

NextPolls ==
  \/ MT_Setup
  \/ MT_Loop
  \/ MT_WindowFrame
  \/ MT_WindowErr
  \/ MT_WindowExpires
  \/ MT_WindowEnd
  \/ R2T_Setup
  \/ R2T_Loop
  \/ R2T_RxErr
  \/ R2T_Timeout
  \/ R2T_Frame
  \/ P8_Setup
  \/ P8_PerformRanging
  \/ P8_ProcessRangeResponse
  \/ P8_NoResponse
  \/ Radio_RxFlood
  \/ Radio_TxDone

\* the steps of a tag's loop() that wait for no clock
TagRuns ==
  \/ MT_Loop
  \/ MT_WindowFrame
  \/ MT_WindowErr
  \/ R2T_Loop
  \/ R2T_RxErr
  \/ R2T_Frame
  \/ P8_PerformRanging
  \/ P8_ProcessRangeResponse

SpecPolls ==
  InitPolls /\ [][NextPolls]_vars /\ WF_vars(WindowPasses) /\ WF_vars(TagRuns)

(***************************************************************************)
(* The tags when the sequence number wraps: a tag is powered up, or it has *)
(* run 254 cycles in which it received nothing, and the cycles that follow *)
(* bring frames and errors.                                                *)
(***************************************************************************)
\* a tag at the top of loop() after n cycles without a frame or an error
AfterCycles(n) ==
  /\ sketch \in Tags /\ pc = "loop" /\ eeprom = 255
  /\ anchor_id = DEFAULT_ANCHOR_ID
  /\ frame_seq_nb = n % 256
  /\ rx_buffer = Zeros(RxBufferSize(sketch))
  /\ tx_resp_msg = tx_resp_msg_init
  /\ status_reg = IF sketch = MT THEN {} ELSE {"TXFRS"}
  /\ poll_rx_ts = Zeros(8)
  /\ resp_tx_ts = Zeros(8)
  /\ total_uus = 0
  /\ ret = "none"
  /\ tx_poll_msg = SetAt(rx_poll_msg, ALL_MSG_SN_IDX, (n - 1) % 256)
  /\ distance = ZeroDist
  /\ distances_m = IF sketch = MT THEN [i \in 0..(MAX_ANCHORS - 1) |-> ZeroDist] ELSE <<>>
  /\ last_seen_ms = IF sketch = MT THEN [i \in 0..(MAX_ANCHORS - 1) |-> 0] ELSE <<>>
  /\ window_over = (sketch = MT)
  /\ serial_rx = <<>>
  /\ out = IF sketch = R2T THEN <<Line("SW TIMEOUT", 0, 0)>> ELSE <<>>
  /\ SYS_STATUS = {"TXFRS"}
  /\ rx_on = TRUE
  /\ hw_rx_frame = <<>>
  /\ hw_rx_ts = Zeros(5)
  /\ hw_dx_time = Zeros(4)
  /\ hw_tx_buf = tx_poll_msg
  /\ hw_tx_armed = FALSE
  /\ hw_tx_mode = "none"
  /\ hw_tx_ts = Zeros(5)
  /\ air = OnAir(tx_poll_msg)
  /\ nframes = 0
  /\ nlines = 0
  /\ nresets = 0
  /\ fleet = {}
  /\ DiscoveryOff

\* cycles run before the first state: the next polls carry 254, 255, 0, ...
CyclesBefore == 254

InitSeq == InitPolls \/ AfterCycles(CyclesBefore)

NextSeq ==
  \/ MT_Setup
  \/ MT_Loop
  \/ MT_WindowFrame
  \/ MT_WindowErr
  \/ MT_WindowExpires
  \/ MT_WindowEnd
  \/ R2T_Setup
  \/ R2T_Loop
  \/ R2T_RxErr
  \/ R2T_Timeout
  \/ R2T_Frame
  \/ P8_Setup
  \/ P8_PerformRanging
  \/ P8_ProcessRangeResponse
  \/ P8_NoResponse
  \/ Radio_RxFrame(LiveRxEvents, MaxFrames)
  \/ Radio_RxError(MaxFrames)
  \/ Radio_TxDone

SpecSeq == InitSeq /\ [][NextSeq]_vars

(***************************************************************************)
(* The multi-anchor anchor as its loop() keeps running: a transmission     *)
(* that was started completes, and the statements of loop() follow one     *)
(* another.  Nothing is assumed of what the anchor receives.               *)
(***************************************************************************)
InitListens == InitRanging /\ sketch = MA

NextListens ==
  \/ MA_SetupSerial
  \/ MA_Setup
  \/ MA_Loop
  \/ MA_RxEvent
  \/ MA_TxDone
  \/ Radio_RxFrame(AnchorRxEvents, MaxFrames)
  \/ Radio_RxError(MaxFrames)
  \/ Radio_TxDone

\* the statements of the anchor's loop()
AnchorRuns ==
  \/ MA_Loop
  \/ MA_RxEvent
  \/ MA_TxDone

SpecListens ==
  InitListens /\ [][NextListens]_vars /\ WF_vars(AnchorRuns) /\ WF_vars(Radio_TxDone)



(***************************************************************************)
(* Several anchors, each programmed with its own identity, hear the same   *)
(* poll.  They are separate devices that share nothing, so they are run    *)
(* one after the other; fleet keeps what the earlier one scheduled.        *)
(***************************************************************************)
FleetRxEvents == {<<Poll(3), ts>> : ts \in RxTsSamples}

\* the anchor at hand has dealt with the poll; the next anchor, with another
\* identity, powers up and hears the same poll
Fleet_NextAnchor ==
  /\ sketch = MA /\ pc = "loop" /\ total_uus # 0
  /\ fleet = {}
  /\ fleet' = {[id |-> anchor_id, us |-> total_uus, rx |-> poll_rx_ts, dx |-> hw_dx_time,
                sent |-> air # <<>>]}
  /\ \E id \in (ID_MIN..ID_MAX) \ {eeprom} : eeprom' = id
  /\ pc' = "setup"
  /\ AnchorRamReset
  /\ RadioReset
  /\ serial_rx' = <<>>
  /\ out' = <<>>
  /\ air' = <<>>
  /\ nframes' = 0
  /\ UNCHANGED <<sketch, tagram, nlines, nresets, discovery>>

InitFleet ==
  /\ sketch = MA
  /\ eeprom \in ID_MIN..ID_MAX
  /\ PowerUp

NextFleet ==
  \/ MA_SetupSerial
  \/ MA_Setup
  \/ MA_Loop
  \/ MA_RxEvent
  \/ MA_TxDone
  \/ Radio_RxFrame(FleetRxEvents, 1)
  \/ Radio_RxError(1)
  \/ Radio_TxDone
  \/ Fleet_NextAnchor

SpecFleet == InitFleet /\ [][NextFleet]_vars

(***************************************************************************)
(* Claims about the slots (SpecFleet).                                     *)
(***************************************************************************)
Dist(a, b) == IF a >= b THEN a - b ELSE b - a

\* C1: the slot delays that two anchors with distinct identities in [ID_MIN, ID_MAX]
\* compute for the same poll differ by at least SLOT_DELAY_US, every slot delay is
\* BASE_REPLY_DLY_US + (id - 1) * SLOT_DELAY_US, and none is below BASE_REPLY_DLY_US.
C1_SlotsDisjoint ==
  total_uus # 0 =>
     /\ total_uus = BASE_REPLY_DLY_US + (anchor_id - 1) * SLOT_DELAY_US
     /\ total_uus >= BASE_REPLY_DLY_US
     /\ \A r \in fleet : r.id # anchor_id /\ Dist(total_uus, r.us) >= SLOT_DELAY_US

\* the anchors 20 and 19, in neighbouring slots, have both computed their delay
C1_Witness ==
  /\ total_uus # 0 /\ anchor_id = ID_MAX - 1
  /\ \E r \in fleet : r.id = ID_MAX /\ Dist(total_uus, r.us) = SLOT_DELAY_US

\* when the radio starts a delayed transmission, in device time units after the poll
\* was received: the delayed-TX register without its lowest bit, shifted back
TxStart(rx, dx) == Low(SubLE(Shl8(Low(ClearBit0(dx), 5)), Low(rx, 5)), 8)

\* a <= b for numbers of the same length
LeqLE(a, b) == a = b \/ LessLE(a, b)

\* the transmissions [s1, s1 + len) and [s2, s2 + len) do not overlap
Apart(s1, s2, len) == LeqLE(AddLE(s1, len), s2) \/ LeqLE(AddLE(s2, len), s1)

\* airtimes of a response, in microseconds: the shortest, that of the 20-byte frame
\* at 6.8 Mb/s with a 128-symbol preamble, and the longest shorter than a slot
AirtimesUs == {1, 180, SLOT_DELAY_US - 1}

\* C2: two anchors with distinct identities that accept the same poll never transmit
\* at the same instant: counted from the reception of the poll, the intervals that
\* begin at the start time the radio is given (after the >> 8 and without the lowest
\* bit) and last one airtime shorter than a slot do not overlap.
C2_TransmissionsApart ==
  total_uus # 0 =>
    \A r \in fleet : \A a \in AirtimesUs :
       Apart(TxStart(poll_rx_ts, hw_dx_time), TxStart(r.rx, r.dx), us_to_dwt(a))

\* two anchors in neighbouring slots have both transmitted, the start of one of them
\* rounded down by the >> 8
C2_Witness ==
  /\ air # <<>> /\ anchor_id = 2
  /\ \E r \in fleet : r.id = 1 /\ r.sent /\ At(r.rx, 0) # 0

(***************************************************************************)
(* Claims about the identity of the multi-anchor Anchor (SpecAnchorId).    *)
(***************************************************************************)
ValidId(v) == v >= ID_MIN /\ v <= ID_MAX

\* the anchor has finished setup() and runs loop()
Ranging == pc \in {"loop", "wait_rx", "wait_tx"}

ReadsLine == sketch = MA /\ pc \in {"setup", "loop"} /\ serial_rx # <<>> /\ nresets' = nresets

\* "SETID <arg>": the line, trimmed, is the word SETID, a space and an argument
IsSetidCommand(l) == LET s == Trim(l) IN Len(s) > 6 /\ SubSeq(s, 1, 6) = SETID \o <<" ">>

SetidArg(l) == Trim(Substring(Trim(l), 6))

\* the argument is a decimal number: an optional sign and digits, nothing else
IsNumber(a) ==
  LET d0 == IF a # <<>> /\ a[1] \in {"-", "+"} THEN 2 ELSE 1
  IN Len(a) >= d0 /\ \A i \in d0..Len(a) : IsDigit(a[i])

Rejected ==
  /\ eeprom' = eeprom
  /\ anchor_id' = anchor_id
  /\ pc' \in {"setup_load", "wait_rx"}
  /\ out' = <<Line("Invalid ID", 0, 0)>>

\* C4 as stated: a SETID whose argument is not a number in [1,20] (0, negative, 256
\* and more, not a number at all) is rejected with the diagnostic, nothing is
\* written, the anchor does not restart and anchor_id is unchanged.
C4_NonNumberRejected ==
  [][(ReadsLine /\ IsSetidCommand(Head(serial_rx))
        /\ ~(IsNumber(SetidArg(Head(serial_rx))) /\ ValidId(ToInt(SetidArg(Head(serial_rx))))))
      => Rejected]_vars

\* C4 (amended): with n the number String::toInt() reads from the argument (its
\* leading digits; 0 when it has none), a SETID whose n is outside [1,20] is
\* rejected with the diagnostic and changes nothing.
C4_OutOfRangeRejected ==
  [][(ReadsLine /\ IsSetidCommand(Head(serial_rx))
        /\ ~ValidId(ToInt(SetidArg(Head(serial_rx)))))
      => Rejected]_vars

\* a running anchor with identity 7 has just rejected a SETID
C4_Witness ==
  /\ sketch = MA /\ pc = "wait_rx"
  /\ out = <<Line("Invalid ID", 0, 0)>>
  /\ eeprom = 7 /\ anchor_id = 7 /\ nresets = 0

\* C5: an accepted SETID n (n in [1,20]) writes n to the EEPROM and restarts the
\* anchor; nothing else writes the EEPROM; and every slot delay computed while the
\* EEPROM holds a valid n is the slot of n, across restarts.
C5_SetidPersists ==
  [][/\ (ReadsLine /\ IsSetidCommand(Head(serial_rx)) /\ ValidId(ToInt(SetidArg(Head(serial_rx)))))
          => (eeprom' = ToInt(SetidArg(Head(serial_rx))) /\ pc' = "setup"
              /\ anchor_id' = DEFAULT_ANCHOR_ID /\ total_uus' = 0)
     /\ eeprom' # eeprom => (ReadsLine /\ SetidOutcome(serial_rx).kind = "saved")
     /\ (sketch = MA /\ ValidId(eeprom') /\ total_uus' # 0) => total_uus' = SlotDelayUs(eeprom')
     /\ (sketch = MA /\ ValidId(eeprom') /\ hw_tx_armed') => At(hw_tx_buf', ALL_MSG_SN_IDX) = eeprom'
    ]_vars

\* SETID 2 was accepted and, after the restart and a power cycle, a poll is
\* answered in slot 2
C5_Witness ==
  /\ sketch = MA /\ eeprom = 2 /\ nresets = 1 /\ nlines = 1
  /\ total_uus = SlotDelayUs(2)
  /\ hw_tx_armed /\ At(hw_tx_buf, ALL_MSG_SN_IDX) = 2

(***************************************************************************)
(* Claims about the frames (SpecRanging).                                  *)
(***************************************************************************)
\* this step is the sketch's handling of the good frame in hw_rx_frame
Handled == "RXFCG" \in SYS_STATUS /\ "RXFCG" \notin SYS_STATUS'

\* the step treats the frame as a poll: the anchor has started its answer
Answers == ret' # "none"

\* the step emits a distance
Reports ==
  \E i \in 1..Len(out') :
    out'[i].msg \in {"[TAG] A", "DIST:", "DIST from A ", "Range from anchor ", "fresh_link"}

\* the step takes no measurement from the frame
NoMeasurement == ~Reports /\ UNCHANGED <<distance, distances_m, last_seen_ms>>

\* the ten header bytes of f, the sequence number apart, are those of msg
HasHeader(f, msg) ==
  /\ Len(f) >= ALL_MSG_COMMON_LEN
  /\ \A i \in 1..ALL_MSG_COMMON_LEN : i = ALL_MSG_SN_IDX + 1 \/ f[i] = msg[i]

\* C6: the response a multi-anchor anchor builds for identity id and timestamps
\* poll_rx_ts, resp_tx_ts is taken as a response by the multi-anchor tag, which
\* extracts the identity id and the two timestamps modulo 2^32.
C6_RoundTrip ==
  [][\A e \in MA_Exchanges :
       (sketch = MT /\ Handled /\ hw_rx_frame = e.frame)
       => /\ Reports
          /\ anchor_id' = e.id
          /\ e.id \in ID_MIN..ID_MAX
          /\ poll_rx_ts' = Low(e.prx, 4)
          /\ resp_tx_ts' = Low(e.rtx, 4)]_vars

\* the tag has just taken the response of anchor 19 to a poll received late in the
\* 40-bit counter
C6_Witness ==
  /\ sketch = MT /\ pc = "window"
  /\ anchor_id = 19
  /\ poll_rx_ts = <<7, 200, 113, 250>>
  /\ resp_tx_ts = Low(RespTxTs(RespTxTime32(<<7, 200, 113, 250, 255, 0, 0, 0>>, SlotDelayUs(19))), 4)
  /\ Len(out) = 1 /\ out[1].msg = "[TAG] A" /\ out[1].id = 19
  /\ distances_m[19] = distance

\* a frame shorter than the header, read into a buffer that holds the header of msg,
\* leaves that header in the buffer: for some sequence number the bytes before its
\* FCS begin as msg does and its FCS equals the header bytes at its place
ShortFrameCompletes(msg) ==
  \E n \in 0..(ALL_MSG_COMMON_LEN - 3), seq \in Byte :
    LET f == Fcs(SubSeq(SetAt(msg, ALL_MSG_SN_IDX, seq), 1, n))
    IN HasHeader(ReadRxData(msg, f, Len(f)), msg)

\* such a frame exists for the poll header
ShortPollCompletes == ShortFrameCompletes(rx_poll_msg)

\* C7: a frame shorter than the 10-byte header is never taken as a poll by an
\* anchor nor as a response by a tag, whatever earlier frames left in the receive
\* buffer, and its handling completes.
C7_ShortFrameUnclassified ==
  [][(Handled /\ Len(hw_rx_frame) < ALL_MSG_COMMON_LEN)
     => /\ ~Answers
        /\ NoMeasurement
        /\ pc' \in {"loop", "window"}
        /\ ~ShortPollCompletes]_vars

\* an anchor that holds a poll's header in its buffer has just dropped a 9-byte
\* frame that begins as a poll does
C7_Witness ==
  /\ sketch \in {MA, R2A} /\ pc = "loop"
  /\ nframes = 2
  /\ "RXFCG" \notin SYS_STATUS
  /\ Len(hw_rx_frame) = 9
  /\ SubSeq(hw_rx_frame, 1, 7) = SubSeq(rx_poll_msg, 1, 7)
  /\ At(rx_buffer, 9) = At(rx_poll_msg, 9)
  /\ At(rx_buffer, 8) = hw_rx_frame[9]
  /\ ret = "none"

\* C8: in every tag sketch a frame with the response header that is too short to
\* hold both timestamps (fewer than 18 bytes before the FCS) yields no distance.
C8_TruncatedResponseRejected ==
  [][(sketch \in Tags /\ Handled /\ HasHeader(hw_rx_frame, rx_resp_msg) /\ Len(hw_rx_frame) < 20)
     => NoMeasurement]_vars

\* C9: in every anchor sketch a poll is answered whatever its sequence number, and
\* a frame whose header differs from the poll's in another byte is never answered.
C9_PollAnsweredForEverySeq ==
  [][(sketch \in Anchors /\ Handled)
     => /\ (HasHeader(hw_rx_frame, rx_poll_msg) /\ Len(hw_rx_frame) = Len(rx_poll_msg)) => Answers
        /\ ~HasHeader(hw_rx_frame, rx_poll_msg) => ~Answers]_vars

\* C10: in every tag sketch a frame whose header is not the response header yields
\* no distance and leaves the stored distances as they were.
C10_OnlyResponsesMeasured ==
  [][(sketch \in Tags /\ Handled /\ ~HasHeader(hw_rx_frame, rx_resp_msg)) => NoMeasurement]_vars

\* the step is a delayed transmission refused by the radio: its time has passed
MissedSlot == Handled /\ ret' = "DWT_ERROR"

\* the lines of a step's output that report a missed slot
MissedReports == {i \in 1..Len(out') : out'[i].msg = "Missed delayed TX window"}

\* C11: an anchor whose delayed transmission cannot be started reports the missed
\* slot once, transmits nothing for that poll, leaves its response counter as it
\* was and goes back to listening.
C11_MissedSlotReportedOnce ==
  [][(sketch \in Anchors /\ MissedSlot)
     => /\ Cardinality(MissedReports) = 1
        /\ ~hw_tx_armed' /\ air' = air
        /\ frame_seq_nb' = frame_seq_nb
        /\ pc' = "loop"]_vars

(***************************************************************************)
(* Claims about waiting (SpecLive).                                        *)
(***************************************************************************)
\* the tag is in the wait that follows its poll
Collecting == sketch \in Tags /\ pc \in {"window", "wait"}

\* no good frame is waiting to be handled
NothingReceived == "RXFCG" \notin SYS_STATUS

\* C12: a tag that receives no response after its poll leaves the wait when the
\* collection window has passed, and has emitted no measurement.
C12_WindowEndsEmpty ==
  /\ (Collecting /\ NothingReceived) ~> (~Collecting \/ ~NothingReceived)
  /\ [][(Collecting /\ NothingReceived)
        => /\ UNCHANGED <<distance, distances_m, last_seen_ms>>
           /\ ~Collecting' => NoMeasurement]_vars

\* a tag is back at the top of loop() after a poll that was sent and that no frame
\* and no error followed
C12_Witness ==
  /\ sketch \in Tags /\ pc = "loop"
  /\ frame_seq_nb = 1
  /\ air = OnAir(tx_poll_msg) /\ "TXFRS" \in SYS_STATUS
  /\ nframes = 0
  /\ distance = ZeroDist

\* the sketch is in a wait for the radio, and what it waits for has not come
WaitsFor ==
  [wait_rx |-> {"RXFCG", "RXERR"}, wait_tx |-> {"TXFRS"},
   window |-> {"RXFCG", "RXERR", "RXTO"}, wait |-> {"RXFCG", "RXERR"}]

Waiting(w) == pc = w /\ SYS_STATUS \cap WaitsFor[w] = {}

\* C17: every wait of a tag and of an anchor ends, even if the radio raises no
\* further event.
C17_WaitsBounded ==
  \A w \in DOMAIN WaitsFor : Waiting(w) ~> ~Waiting(w)

(***************************************************************************)
(* Claims about what the tag publishes (SpecRanging).                      *)
(***************************************************************************)
\* C13: for every anchor identity in 1..20, the multi-anchor tag that takes a
\* response of that anchor in its window prints one line "[TAG] A<id> = <distance> m"
\* with that identity and stores the distance under that identity.
C13_EveryIdentityPublished ==
  [][\A e \in MA_Exchanges :
       (sketch = MT /\ Handled /\ hw_rx_frame = e.frame /\ e.id \in ID_MIN..ID_MAX)
       => /\ out' = <<Line("[TAG] A", e.id, distance')>>
          /\ e.id \in DOMAIN distances_m'
          /\ distances_m'[e.id] = distance']_vars

(***************************************************************************)
(* The tag's arithmetic on given timestamps (SpecTof): the tags of         *)
(* SpecRanging with responses whose timestamps are a few ticks apart.      *)
(***************************************************************************)
\* a response of anchor 5 with the given poll RX and response TX timestamps
TofResponse(prx, rtx) == OnAir(AnchorResponse(tx_resp_msg_init, 5, prx, rtx))

\* poll_rx_ts = 1100 with resp_tx_ts = 1340 (a reply time of 240 ticks), with
\* resp_tx_ts = 2340 (1240 ticks) and with resp_tx_ts = 1100 (none)
TofResponses ==
  {TofResponse(<<76, 4, 0, 0>>, <<60, 5, 0, 0>>),
   TofResponse(<<76, 4, 0, 0>>, <<36, 9, 0, 0>>),
   TofResponse(<<76, 4, 0, 0>>, <<76, 4, 0, 0>>)}

\* the responses arrive at 2240 or at 1000 + 2^32 ticks of the tag's clock; an
\* anchor receives polls
TofRxEvents ==
  IF sketch \in Anchors THEN LiveRxEvents
  ELSE {<<f, ts>> : f \in TofResponses, ts \in {<<192, 8, 0, 0, 0>>, <<232, 3, 0, 0, 1>>}}

\* the polls leave at 1000 ticks of the tag's clock, or 56 ticks before its 40-bit
\* counter wraps
TofTxTsSamples == {<<232, 3, 0, 0, 0>>, <<200, 255, 255, 255, 255>>}

NextTof ==
  \/ MA_SetupSerial
  \/ MA_Setup
  \/ MA_Loop
  \/ MA_RxEvent
  \/ MA_TxDone
  \/ R2A_Setup
  \/ R2A_Loop
  \/ R2A_RxEvent
  \/ R2A_TxDone
  \/ P6_Setup
  \/ P6_ProcessPolls
  \/ P6_TxDone
  \/ MT_Setup
  \/ MT_Loop
  \/ MT_WindowFrame
  \/ MT_WindowErr
  \/ MT_WindowExpires
  \/ MT_WindowEnd
  \/ R2T_Setup
  \/ R2T_Loop
  \/ R2T_RxErr
  \/ R2T_Timeout
  \/ R2T_Frame
  \/ P8_Setup
  \/ P8_PerformRanging
  \/ P8_ProcessRangeResponse
  \/ P8_NoResponse
  \/ Radio_RxFrame(TofRxEvents, MaxFrames)
  \/ Radio_RxError(MaxFrames)
  \/ Radio_TxDoneAt(TofTxTsSamples)

SpecTof == InitRanging /\ [][NextTof]_vars

\* rtd_init = resp_rx_ts - poll_tx_ts of the frame the radio holds, and rtd_resp =
\* resp_tx_ts - poll_rx_ts of the timestamps a step has read, as uint32_t
RtdInit == SubLE(Low(hw_rx_ts, 4), Low(hw_tx_ts, 4))

RtdResp == SubLE(resp_tx_ts', poll_rx_ts')

\* the multi-anchor tag takes a response that is complete
TakesResponse ==
  /\ sketch = MT /\ Handled
  /\ HasHeader(hw_rx_frame, rx_resp_msg) /\ Len(hw_rx_frame) = Len(tx_resp_msg_init)

\* C14 (as stated): when the two round trips are equal and the clock offset is 0,
\* the time of flight the tag computes is half the initiator's round trip (the
\* distance, whose unit is half a tick of flight, is rtd_init).
C14_SymmetricIsHalfRoundTrip ==
  [][(TakesResponse /\ RtdInit = RtdResp) => distance' = F32(Int32(RtdInit))]_vars

\* C14 (amended): when the two round trips are equal and the clock offset is 0,
\* the time of flight the tag computes is 0.
C14_SymmetricIsZero ==
  [][(TakesResponse /\ RtdInit = RtdResp) => distance' = ZeroDist]_vars

\* the tag has measured a response sent 1240 ticks after the poll reached the
\* anchor and received 1240 ticks after the poll left the tag
C14_Witness ==
  /\ sketch = MT /\ pc = "window"
  /\ Low(hw_tx_ts, 4) = <<232, 3, 0, 0>> /\ Low(hw_rx_ts, 4) = <<192, 8, 0, 0>>
  /\ poll_rx_ts = <<76, 4, 0, 0>> /\ resp_tx_ts = <<36, 9, 0, 0>>
  /\ out = <<Line("[TAG] A", 5, ZeroDist)>>
  /\ distance = ZeroDist

\* C15: with poll_tx_ts = 1000, resp_rx_ts = 2240, poll_rx_ts = 1100 and
\* resp_tx_ts = 1340 the tag's round trips are 1240 and 240 ticks and the time of
\* flight is 500 ticks (a distance of 1000 units of half a tick).
C15_Scenario ==
  [][(/\ TakesResponse
      /\ Low(hw_tx_ts, 4) = <<232, 3, 0, 0>> /\ Low(hw_rx_ts, 4) = <<192, 8, 0, 0>>
      /\ hw_rx_frame = TofResponse(<<76, 4, 0, 0>>, <<60, 5, 0, 0>>))
     => /\ poll_rx_ts' = <<76, 4, 0, 0>> /\ resp_tx_ts' = <<60, 5, 0, 0>>
        /\ RtdInit = <<216, 4, 0, 0>>
        /\ RtdResp = <<240, 0, 0, 0>>
        /\ distance' = [neg |-> FALSE, mag |-> <<232, 3, 0, 0, 0>>]
        /\ out' = <<Line("[TAG] A", 5, distance')>>]_vars

\* the tag has published the distance of the scenario
C15_Witness ==
  /\ sketch = MT /\ pc = "window"
  /\ Low(hw_tx_ts, 4) = <<232, 3, 0, 0>> /\ Low(hw_rx_ts, 4) = <<192, 8, 0, 0>>
  /\ poll_rx_ts = <<76, 4, 0, 0>> /\ resp_tx_ts = <<60, 5, 0, 0>>
  /\ distance = [neg |-> FALSE, mag |-> <<232, 3, 0, 0, 0>>]
  /\ distances_m[5] = distance

(***************************************************************************)
(* Claims about the distances a tag uses (SpecRanging).                    *)
(***************************************************************************)
\* the lines that carry a distance
DistanceLines == {"[TAG] A", "DIST:", "DIST from A ", "Range from anchor ", "fresh_link"}

\* 0 <= d <= 1000 metres
InRange(d) == d.mag = Zeros(5) \/ (~d.neg /\ LeqLE(d.mag, NatLE(MaxPlausibleUnits, 5)))

\* C16: no tag publishes or stores a distance outside [0, 1000] metres.
C16_OnlyPlausibleUsed ==
  [][(sketch \in Tags /\ Handled)
     => /\ \A i \in 1..Len(out') : out'[i].msg \in DistanceLines => InRange(out'[i].us)
        /\ \A a \in DOMAIN distances_m :
             distances_m'[a] # distances_m[a] => InRange(distances_m'[a])]_vars

(***************************************************************************)
(* Claims about startup (SpecRanging).                                     *)
(***************************************************************************)
\* what setup() prints when the idle check, dwt_initialise or dwt_configure fails
FailureLines ==
  {"IDLE FAILED", "INIT FAILED", "CONFIG FAILED",
   "DW3000 not responding", "init failed", "config failed"}

\* the step is a setup() in which the radio could not be brought up
SetupFails ==
  /\ pc \in {"setup", "setup_load"} /\ pc' # pc
  /\ \E i \in 1..Len(out') : out'[i].msg \in FailureLines

\* C18: in every ranging sketch a setup() in which the idle check, the
\* initialisation or the configuration of the radio fails ends in the halt, and a
\* halted device stays halted with its receiver off and nothing to transmit.
C18_SetupFailureHalts ==
  /\ [][SetupFails => pc' = "halt"]_vars
  /\ [][pc = "halt" => pc' = "halt"]_vars
  /\ [](pc = "halt" => ~rx_on /\ ~hw_tx_armed)

(***************************************************************************)
(* Claims about the round trips (SpecRanging).                             *)
(***************************************************************************)
\* C19: for every anchor identity in 1..20, the round trips that enter the tag's
\* formula are the true ones and not negative: rtd_resp is the time from the
\* anchor's poll RX timestamp to its response TX timestamp and rtd_init the time
\* from the tag's poll TX timestamp to its response RX timestamp, also when the
\* 40-bit counter wraps in between.
C19_RoundTripsUnsigned ==
  [][\A e \in MA_Exchanges :
       (sketch = MT /\ Handled /\ hw_rx_frame = e.frame /\ e.id \in ID_MIN..ID_MAX)
       => /\ Int32(RtdResp) = [neg |-> FALSE, mag |-> SubLE(Low(e.rtx, 5), Low(e.prx, 5))]
          /\ Int32(RtdInit) = [neg |-> FALSE, mag |-> SubLE(hw_rx_ts, hw_tx_ts)]]_vars

(***************************************************************************)
(* Claims about the timestamps in a response (SpecRanging).                *)
(***************************************************************************)
\* the step is the end of a transmission: the frame has gone out
Transmits == hw_tx_armed /\ ~hw_tx_armed'

\* C20: in every anchor sketch the response that goes out carries the RX timestamp
\* of the poll it answers and its own TX timestamp (their low 32 bits).
C20_ResponseCarriesOwnTimestamps ==
  [][(sketch \in Anchors /\ Transmits)
     => /\ resp_msg_get_ts(air', RESP_MSG_POLL_RX_TS_IDX) = Low(hw_rx_ts, 4)
        /\ resp_msg_get_ts(air', RESP_MSG_RESP_TX_TS_IDX) = Low(hw_tx_ts', 4)]_vars

(***************************************************************************)
(* Claims about the anchor's cycle (SpecRanging).                          *)
(***************************************************************************)
\* the frame the radio holds is a poll that fits the anchor's buffer
PollPending == HasHeader(hw_rx_frame, rx_poll_msg) /\ Len(hw_rx_frame) <= Len(rx_buffer)

\* the step starts a transmission
StartsTx == ~hw_tx_armed /\ hw_tx_armed'

\* C21: the multi-anchor anchor starts a response only in a step that accepts a
\* poll, changes nothing of a response that has been started until it has gone
\* out, and has never sent more responses than it has received frames.
C21_OneResponsePerPoll ==
  /\ [][(sketch = MA /\ StartsTx) => (Handled /\ PollPending /\ ret' = "DWT_SUCCESS")]_vars
  /\ [][(sketch = MA /\ hw_tx_armed)
        => /\ UNCHANGED <<hw_tx_buf, hw_dx_time>>
           /\ hw_tx_armed' \/ Transmits]_vars
  /\ [](sketch = MA => frame_seq_nb <= nframes)

\* the anchor has received two polls and sent its second response
C21_Witness ==
  /\ sketch = MA /\ pc = "loop"
  /\ frame_seq_nb = 2 /\ nframes = 2
  /\ air = OnAir(tx_resp_msg)

(***************************************************************************)
(* Claims about the tag's cycle (SpecRanging).                             *)
(***************************************************************************)
\* the radio of the multi-anchor tag holds a complete response, received in the
\* window and not yet handled
ResponsePending ==
  /\ sketch = MT /\ pc = "window" /\ "RXFCG" \in SYS_STATUS
  /\ HasHeader(hw_rx_frame, rx_resp_msg) /\ Len(hw_rx_frame) = Len(tx_resp_msg_init)

\* the lines of a step's output that carry a distance
Measurements == {i \in 1..Len(out') : out'[i].msg \in DistanceLines}

\* C22: every complete response the multi-anchor tag receives in its window is
\* handled in that window and yields exactly one measurement, after which the
\* receiver is on again and the window still open; a step of the window that
\* handles no frame yields none.
C22_OneMeasurementPerResponse ==
  /\ [][ResponsePending
        => /\ pc' = "window"
           /\ Handled => (Cardinality(Measurements) = 1 /\ rx_on')]_vars
  /\ [][(sketch = MT /\ pc = "window" /\ ~Handled /\ out' # out) => Measurements = {}]_vars


\* C23: the multi-anchor tag sends a poll only from the top of loop(), never in a
\* window, and each poll opens a new window; the window is left only when
\* MULTICOLLECT_WINDOW_MS have passed, responses or not; and once they have passed
\* the sketch handles nothing more in that window.
C23_CycleRunsToCompletion ==
  /\ [][(sketch = MT /\ StartsTx) => (pc = "loop" /\ pc' = "window" /\ ~window_over')]_vars
  /\ [][(sketch = MT /\ pc = "window" /\ pc' # "window") => window_over]_vars
  /\ [][(sketch = MT /\ pc = "window" /\ window_over)
        => /\ UNCHANGED <<rx_buffer, distance, distances_m, last_seen_ms>>
           /\ pc' = "loop" \/ (pc' = "window" /\ out' = out /\ window_over')]_vars

\* the tag has sent its second poll, after a window in which it measured anchor 1
C23_Witness ==
  /\ sketch = MT /\ pc = "window" /\ ~window_over
  /\ frame_seq_nb = 1 /\ hw_tx_armed
  /\ anchor_id = 1 /\ distances_m[1] = distance /\ distance # ZeroDist


(***************************************************************************)
(* Claims about the tags under any stream of radio events (SpecPolls).     *)
(***************************************************************************)
\* C24: under any stream of radio events (none, responses, other frames, errors
\* and timeouts without end) a tag that is collecting leaves the collection, and a
\* tag at the top of loop() sends its next poll and collects again.
C24_PollsForever ==
  /\ Collecting ~> ~Collecting
  /\ (sketch \in Tags /\ pc = "loop" /\ frame_seq_nb < MaxPolls) ~> (Collecting /\ hw_tx_armed)

\* a tag has sent its second poll after a collection in which it measured a
\* distance and handled a receive error or timeout
C24_Witness ==
  /\ Collecting /\ hw_tx_armed
  /\ At(tx_poll_msg, ALL_MSG_SN_IDX) = 1
  /\ status_reg \cap {"RXERR", "RXTO"} # {}
  /\ distance # ZeroDist


(***************************************************************************)
(* Claims about receive errors (SpecRanging).                              *)
(***************************************************************************)
RxErrors == {"RXERR", "RXTO"}

\* an error or timeout flag is raised and no good frame waits
ErrorPending == NothingReceived /\ SYS_STATUS \cap RxErrors # {}

\* the step clears the error flags
ClearsError == ErrorPending /\ SYS_STATUS' \cap RxErrors = {}

\* C25: a tag that finds a receive error or timeout while it collects clears the
\* flag, turns the receiver on again and stays in the collection, with no
\* measurement and no transmission; the multi-anchor anchor that finds a receive
\* error clears the flag, transmits nothing, prints nothing and goes back to the
\* top of loop(), and every pass from there to the wait turns the receiver on.
C25_ErrorsRecoveredLocally ==
  /\ [][(sketch \in {MT, R2T} /\ Collecting /\ ClearsError)
        => /\ rx_on' /\ pc' = pc
           /\ NoMeasurement /\ out' = <<>>
           /\ UNCHANGED <<hw_tx_armed, hw_tx_buf, frame_seq_nb>>]_vars
  /\ [][(sketch = MA /\ pc = "wait_rx" /\ ErrorPending /\ pc' # pc)
        => /\ ClearsError /\ pc' = "loop"
           /\ out' = <<>>
           /\ UNCHANGED <<hw_tx_armed, hw_tx_buf, hw_dx_time, frame_seq_nb>>]_vars
  /\ [][(sketch = MA /\ pc = "loop" /\ pc' = "wait_rx") => rx_on']_vars

\* the multi-anchor tag is in its first window with the receiver on, after a
\* timeout that it has cleared
C25_Witness ==
  /\ sketch = MT /\ pc = "window" /\ ~window_over /\ frame_seq_nb = 0
  /\ "RXTO" \in status_reg /\ SYS_STATUS \cap RxErrors = {}
  /\ rx_on /\ nframes = 1


(***************************************************************************)
(* Claims about the anchor's return to listening (SpecListens).            *)
(***************************************************************************)
\* the anchor waits for a frame with its receiver on
Listening == sketch = MA /\ pc = "wait_rx" /\ rx_on

\* the anchor's wait has ended with a frame or an error: the receiver is off
Received == sketch = MA /\ pc = "wait_rx" /\ ~rx_on /\ SYS_STATUS \cap {"RXFCG", "RXERR"} # {}

\* C26: whatever the anchor has received (a poll it answers, a poll whose slot it
\* misses, a frame that is no poll, a frame too long for its buffer, an error), it
\* is listening again with its receiver on, provided a transmission that was
\* started completes; on the way it is only ever at the top of loop() or waiting
\* for its transmission to complete.
C26_BackToListening ==
  /\ Received ~> Listening
  /\ [][(sketch = MA /\ pc = "wait_rx" /\ pc' # pc)
        => (pc' = "wait_tx" /\ StartsTx) \/ (pc' = "loop" /\ ~StartsTx)]_vars
  /\ [][(sketch = MA /\ pc = "wait_tx" /\ pc' # pc) => (pc' = "loop" /\ "TXFRS" \in SYS_STATUS)]_vars
  /\ [][(sketch = MA /\ pc = "loop" /\ pc' # pc) => Listening']_vars

\* the anchor listens again after a poll it answered and a frame too long for its
\* buffer
C26_Witness ==
  /\ Listening /\ frame_seq_nb = 1 /\ nframes = 2
  /\ Len(hw_rx_frame) > Len(rx_buffer)
  /\ "Missed delayed TX window" \notin {out[i].msg : i \in 1..Len(out)}


(***************************************************************************)
(* Claims about the identity while the anchor ranges (SpecAnchorId).       *)
(***************************************************************************)
\* setup() has loaded the identity
IdentityLoaded == sketch = MA /\ pc \notin {"setup", "setup_load"}

\* the anchor is in loop()
InLoop == sketch = MA /\ pc \in {"loop", "wait_rx", "wait_tx"}

\* the step is the restart that follows an accepted SETID
RestartsWithNewId ==
  /\ ReadsLine /\ SetidOutcome(serial_rx).kind = "saved"
  /\ pc' = "setup" /\ eeprom' = SetidOutcome(serial_rx).v

\* C27: once setup() has loaded it, the anchor's identity is in [1,20] and is what
\* the EEPROM yields; no step of loop() (a poll answered, a response sent, a slot
\* missed, another frame, a receive error, a SETID rejected) changes the identity
\* or the EEPROM, except the restart after an accepted SETID; a power cycle leaves
\* the EEPROM as it is.
C27_IdentityReadOnly ==
  /\ [](IdentityLoaded => (ValidId(anchor_id) /\ anchor_id = load_id_or_fallback(eeprom)))
  /\ [][(InLoop /\ nresets' = nresets)
        => \/ UNCHANGED <<anchor_id, eeprom>>
           \/ RestartsWithNewId]_vars
  /\ [][nresets' # nresets => UNCHANGED eeprom]_vars

\* an anchor with identity 7 that was sent a console line has answered a poll and
\* is at the top of loop() with identity 7
C27_Witness ==
  /\ sketch = MA /\ pc = "loop"
  /\ eeprom = 7 /\ anchor_id = 7
  /\ nlines >= 1 /\ nresets = 0 /\ frame_seq_nb = 1
  /\ out = <<Line("RESP sent", 7, SlotDelayUs(7))>>


(***************************************************************************)
(* Claims about the sequence number of the polls (SpecSeq).                *)
(***************************************************************************)
\* the step hands a poll to the radio
SendsPoll == sketch \in Tags /\ pc = "loop" /\ pc' \in {"window", "wait"}

\* C28: every poll a tag hands to its radio carries the sequence number that
\* follows, modulo 256, the one of the poll before it (which is still in the TX
\* buffer), whatever the cycle between them has received.
C28_NextSequenceNumber ==
  [][(SendsPoll /\ hw_tx_buf # <<>>)
     => /\ hw_tx_armed'
        /\ SubSeq(hw_tx_buf', 1, ALL_MSG_SN_IDX) = SubSeq(hw_tx_buf, 1, ALL_MSG_SN_IDX)
        /\ At(hw_tx_buf', ALL_MSG_SN_IDX) = (At(hw_tx_buf, ALL_MSG_SN_IDX) + 1) % 256]_vars

\* poll 0 is handed to the radio after poll 255 has gone out and a distance was
\* measured
C28_Witness ==
  /\ sketch \in Tags /\ hw_tx_armed
  /\ At(hw_tx_buf, ALL_MSG_SN_IDX) = 0
  /\ air # <<>> /\ At(air, ALL_MSG_SN_IDX) = 255
  /\ distance # ZeroDist


(***************************************************************************)
(* Claims about the order in which the tag handles frames (SpecRanging).   *)
(***************************************************************************)
\* the step is the reception of a good frame
Receives == nframes' # nframes /\ "RXFCG" \in SYS_STATUS'

\* the poll has gone out, and a good frame waits with the receiver off
FrameWaits ==
  /\ sketch = MT /\ pc = "window" /\ ~hw_tx_armed
  /\ "RXFCG" \in SYS_STATUS /\ ~rx_on

C30_OneExchange ==
  /\ [][(sketch = MT /\ Handled /\ Reports) => ~hw_tx_armed]_vars
  /\ [][(sketch = MT /\ SendsPoll) => "RXFCG" \notin SYS_STATUS']_vars


(***************************************************************************)
(* Claims about the flags a cycle starts with (SpecRanging).               *)
(***************************************************************************)
\* the receive-status flags: a good frame, a timeout, an error
RxStatus == {"RXFCG", "RXTO", "RXERR"}

\* C31: when the multi-anchor tag has handed a poll to its radio, no good-frame,
\* timeout or error flag raised before that poll is set, and so every such flag
\* the tag handles in a window was raised after the window's poll.
C31_NoStaleStatus ==
  [][(sketch = MT /\ SendsPoll) => SYS_STATUS' \cap RxStatus = {}]_vars


(***************************************************************************)
(* Claims about the timing constants of tag and anchor (SpecFleet).        *)
(***************************************************************************)
\* dwt_setrxaftertxdelay(POLL_TX_TO_RESP_RX_DLY_UUS) in device time units: a UWB
\* microsecond is 2^16 units
RxAfterTxDelay == Shl8(Shl8(NatLE(POLL_TX_TO_RESP_RX_DLY_UUS, 8)))

\* MULTICOLLECT_WINDOW_MS in device time units
CollectWindow == us_to_dwt(MULTICOLLECT_WINDOW_MS * 1000)

\* C32: for every identity in [1,20], the response an anchor schedules for a poll
\* starts, counted from the poll, after the delay at which the tag's receiver turns
\* on, and with any airtime shorter than a slot it has ended before the tag's
\* collection window closes.
C32_SlotsInsideWindow ==
  (sketch = MA /\ total_uus # 0) =>
     /\ total_uus = SlotDelayUs(anchor_id)
     /\ LessLE(RxAfterTxDelay, TxStart(poll_rx_ts, hw_dx_time))
     /\ \A a \in AirtimesUs :
          LessLE(AddLE(TxStart(poll_rx_ts, hw_dx_time), us_to_dwt(a)), CollectWindow)

\* the anchor with the last identity has scheduled its response
C32_Witness ==
  /\ sketch = MA /\ anchor_id = ID_MAX /\ pc = "wait_tx"
  /\ total_uus = SlotDelayUs(ID_MAX)
  /\ hw_tx_armed /\ hw_tx_mode = "DWT_START_TX_DELAYED"


(***************************************************************************)
(* The anchor with its console, as a program that keeps running: setup()   *)
(* and loop() take their next step whenever they can, and a transmission   *)
(* handed to the radio goes out.  Nothing obliges a frame, an error or a   *)
(* console line to arrive.                                                 *)
(***************************************************************************)
AnchorBoots ==
  \/ MA_SetupSerial
  \/ MA_Setup

SpecConsole ==
  /\ InitAnchorMulti /\ [][NextAnchorId]_vars
  /\ WF_vars(AnchorBoots) /\ WF_vars(AnchorRuns) /\ WF_vars(Radio_TxDone)

\* C33: a line typed on the console while the anchor is in loop() is eventually
\* read (accepted or rejected), whether or not a frame or a receive error arrives.
C33_ConsoleLineProcessed ==
  (sketch = MA /\ InLoop /\ serial_rx # <<>>) ~> (serial_rx = <<>>)


(***************************************************************************)
(* Claims about the per-anchor arrays of the multi-anchor tag               *)
(* (SpecRanging).                                                          *)
(***************************************************************************)
\* the indices of distances_m[MAX_ANCHORS] and last_seen_ms[MAX_ANCHORS]
AnchorSlots == 0..(MAX_ANCHORS - 1)

\* the entries of the two arrays the step has written
Written ==
  {i \in DOMAIN distances_m' \cup DOMAIN last_seen_ms' :
     \/ i \notin DOMAIN distances_m \/ i \notin DOMAIN last_seen_ms
     \/ distances_m'[i] # distances_m[i]
     \/ last_seen_ms'[i] # last_seen_ms[i]}

\* C34: whatever identity byte (0..255) a received response carries, the
\* multi-anchor tag writes distances_m and last_seen_ms only at that identity and
\* only if it is in 0..MAX_ANCHORS-1, the two entries together (the distance just
\* computed and the time); an identity outside writes neither array, and the
\* arrays keep their MAX_ANCHORS entries.
C34_WritesInsideArrays ==
  [][(sketch = MT /\ pc # "setup") =>
       /\ DOMAIN distances_m' = AnchorSlots /\ DOMAIN last_seen_ms' = AnchorSlots
       /\ Written \subseteq {anchor_id'} \cap AnchorSlots
       /\ Written # {} => TakesResponse \/ (Handled /\ HasHeader(hw_rx_frame, rx_resp_msg))
       /\ (Handled /\ HasHeader(hw_rx_frame, rx_resp_msg)) =>
            /\ anchor_id' = At(hw_rx_frame, ALL_MSG_SN_IDX)
            /\ IF anchor_id' \in AnchorSlots
               THEN /\ distances_m'[anchor_id'] = distance'
                    /\ last_seen_ms'[anchor_id'] = Millis
               ELSE UNCHANGED <<distances_m, last_seen_ms>>]_vars

\* the tag has stored a distance for identity 0, and has then handled a response
\* whose identity byte is 255
C34_Witness ==
  /\ sketch = MT /\ pc = "window"
  /\ anchor_id = 255 /\ hw_rx_frame \in R2A_LateResponses
  /\ out = <<Line("DIST:", 0, distance)>>
  /\ distances_m[0] # ZeroDist /\ last_seen_ms[0] # 0


(***************************************************************************)
(* Claims about the rounding of the response time (SpecFleet).             *)
(***************************************************************************)
\* (rtx - TX_ANT_DLY - prx) mod 2^40 lies in (d - 512, d], for a delay d in device
\* time units
WithinRounding(prx, rtx, d) ==
  LET diff == Low(SubLE(SubLE(rtx, NatLE(TX_ANT_DLY, 8)), prx), 5)
  IN /\ LeqLE(diff, Low(d, 5))
     /\ LessLE(Low(SubLE(d, NatLE(512, 8)), 5), diff)

\* C38: for every 40-bit poll_rx_ts (the wrap included) and every identity in
\* [1,20], the time the anchor programs is (poll_rx_ts + us_to_dwt(delay)) >> 8 cut
\* to 32 bits, the resp_tx_ts it embeds is that value without its lowest bit,
\* shifted left by 8, plus TX_ANT_DLY, and so resp_tx_ts - TX_ANT_DLY - poll_rx_ts
\* modulo 2^40 is in (delay_ticks - 512, delay_ticks]; the same holds for the fixed
\* delay of the range2 anchor.
C38_ResponseTimeRounding ==
  /\ (sketch = MA /\ total_uus # 0) =>
       /\ anchor_id \in ID_MIN..ID_MAX
       /\ Low(poll_rx_ts, 5) \in RxTsSamples
       /\ hw_dx_time = Low(Shr8(AddLE(poll_rx_ts, us_to_dwt(SlotDelayUs(anchor_id)))), 4)
       /\ resp_tx_ts = AddLE(Shl8(Low(ClearBit0(hw_dx_time), 8)), NatLE(TX_ANT_DLY, 8))
       /\ WithinRounding(poll_rx_ts, resp_tx_ts, us_to_dwt(SlotDelayUs(anchor_id)))
  /\ \A ts \in RxTsSamples :
       WithinRounding(Low(ts, 8), RespTxTs(R2A_RespTxTime(Low(ts, 8))),
                      NatLE(POLL_RX_TO_RESP_TX_DLY_UUS * UUS_TO_DWT_TIME, 8))

\* the anchor with identity 20 has scheduled its response to a poll received just
\* before the 40-bit clock wraps, at a programmed time that is odd
C38_Witness ==
  /\ sketch = MA /\ anchor_id = ID_MAX /\ total_uus = SlotDelayUs(ID_MAX)
  /\ Low(poll_rx_ts, 5) = <<255, 255, 255, 255, 255>>
  /\ hw_dx_time[1] % 2 = 1
  /\ LessLE(Low(resp_tx_ts, 5), Low(poll_rx_ts, 5))

(***************************************************************************)
(* Claims about the table of the discovery sketch (SpecDiscovery).         *)
(***************************************************************************)
\* the entries created
Created == 0..(device_count - 1)

\* the entries in use
Active == {i \in Created : discovered_devices[i].is_active}

\* the table is within its bounds and holds no device twice
TableOk ==
  /\ device_count <= MAX_DISCOVERED_DEVICES
  /\ device_index \in {NoIndex, -1} \/ device_index \in Created
  /\ \A i, j \in Active : i # j => discovered_devices[i].device_id # discovered_devices[j].device_id

\* all of an entry but its is_active flag
Content(e) == [e EXCEPT !.is_active = FALSE]

FrameOfDevice == sketch = TD /\ device_index' # NoIndex

\* C36: whenever fewer than MAX_DISCOVERED_DEVICES devices are in use, the others
\* having timed out and been cleaned up, the frame of a new or a returning device
\* is tracked: it gets an entry, which is in use and holds the time of the frame.
C36_CapacityFreed ==
  [][(FrameOfDevice /\ Cardinality(Active) < MAX_DISCOVERED_DEVICES) =>
       /\ device_index' \in 0..(device_count' - 1)
       /\ discovered_devices'[device_index'].last_seen = clock_ms]_vars

\* the step is the one in which a scan ends: the summary is printed
SummaryLines == {i \in 1..Len(out') : out'[i].msg = "--- Discovery Summary ---"}

\* the step hands a beacon to the radio; the step follows the beacon that has gone out
StartsBeacon == sketch = TD /\ pc = "loop" /\ pc' = "wait_tx"
BeaconOut == sketch = TD /\ pc = "wait_tx" /\ pc' = "loop"

\* C37: a beacon is sent only while the sketch is not scanning; a listening phase
\* follows each beacon at once; the listening phase ends once LISTEN_DURATION_MS
\* have passed since it began, with one summary; consecutive beacons are at least
\* DISCOVERY_BEACON_INTERVAL_MS apart and their sequence numbers go up by one
\* modulo 256; frames are processed only while scanning.
C37_ScanCycle ==
  [][/\ StartsBeacon =>
          /\ ~is_scanning
          /\ AtLeast(Elapsed(clock_ms, last_beacon_time), DISCOVERY_BEACON_INTERVAL_MS)
          /\ beacons_sent > 0 =>
               At(discovery_beacon', 1) = (At(discovery_beacon, 1) + 1) % 256
     /\ BeaconOut => is_scanning' /\ rx_on' /\ SummaryLines = {}
     /\ (sketch = TD /\ total_frames_received' # total_frames_received) =>
          is_scanning \/ BeaconOut
     /\ (sketch = TD /\ is_scanning /\ ~is_scanning') =>
          /\ AtLeast(Elapsed(clock_ms, scan_start_time), LISTEN_DURATION_MS)
          /\ Cardinality(SummaryLines) = 1
     /\ (sketch = TD /\ out' # out /\ SummaryLines # {}) => (is_scanning /\ ~is_scanning')]_vars


=========================================================================
